---- MODULE Spec2Model ----
(***************************************************************************)
(* Hybrid Atomic Router (src/main.py): generate_hybrid and its helpers.    *)
(*                                                                         *)
(* Text is modelled at the level of tokens.  A text is a sequence of       *)
(* tokens; a token is a word, a number, a clock time ("7:30") or a         *)
(* punctuation mark.  Two neighbouring tokens are separated by exactly one *)
(* blank, except that a punctuation mark is glued to the token before it.  *)
(* Every regular expression of the source is translated to the token       *)
(* pattern it matches on such texts.                                       *)
(***************************************************************************)
EXTENDS Integers, Sequences, FiniteSets, TLC

(***************************************************************************)
(* Bounds of the model.                                                    *)
(***************************************************************************)
MaxCalls == 2
MaxTimeMs == 1

(***************************************************************************)
(* Values of arguments: integers and strings (token sequences).            *)
(***************************************************************************)
IntV(n) == [k |-> "int", n |-> n, s |-> <<>>]
StrV(s) == [k |-> "str", n |-> 0, s |-> s]
IsStr(v) == v.k = "str"

NoArgs == [x \in {} |-> IntV(0)]
Call(name, args) == [name |-> name, arguments |-> args]
None == [name |-> "<None>", arguments |-> NoArgs]
Set1(args, key, v) == (key :> v) @@ args

(***************************************************************************)
(* Token classes.                                                          *)
(***************************************************************************)
\* the tokens that begin with a capital letter
CapTokens ==
  {"Set", "Send", "Look", "Play", "Text", "Remind", "Hello", "Tell", "Find",
   "Search", "Check", "Then", "Wake", "Message", "Is", "What's", "Alice",
   "Maria", "Emma", "Boston", "Chicago", "Paris", "I", "AM", "PM", "Get"}
\* str.lower() of a token
Lower(t) ==
  CASE t = "Set" -> "set" [] t = "Send" -> "send" [] t = "Look" -> "look"
    [] t = "Play" -> "play" [] t = "Text" -> "text" [] t = "Remind" -> "remind"
    [] t = "Hello" -> "hello" [] t = "Tell" -> "tell" [] t = "Find" -> "find"
    [] t = "Search" -> "search" [] t = "Check" -> "check" [] t = "Then" -> "then"
    [] t = "Wake" -> "wake" [] t = "Message" -> "message" [] t = "Is" -> "is"
    [] t = "What's" -> "what's" [] t = "Alice" -> "alice" [] t = "Maria" -> "maria"
    [] t = "Emma" -> "emma" [] t = "Boston" -> "boston" [] t = "Chicago" -> "chicago"
    [] t = "Paris" -> "paris" [] t = "I" -> "i" [] t = "AM" -> "am"
    [] t = "PM" -> "pm" [] t = "Get" -> "get" [] OTHER -> t
\* tokens of the shape [A-Z][a-z]+
IsCapWord(t) == t \in CapTokens /\ t \notin {"AM", "PM", "I", "What's"}

\* the number tokens and int() of them
NumTokens == {"0", "3", "5", "7", "10", "90"}
NumVal == [t \in NumTokens |->
     CASE t = "0" -> 0 [] t = "3" -> 3 [] t = "5" -> 5 [] t = "7" -> 7
       [] t = "10" -> 10 [] t = "90" -> 90]
IsNum(t) == t \in NumTokens
\* \d{1,2}
IsNum2(t) == t \in NumTokens /\ Len(t) <= 2
\* clock tokens \d{1,2}:\d{2}: hour and minute
ClockTokens == {"7:30", "3:00", "5:00", "7:00", "10:00"}
ClockVal == [t \in ClockTokens |->
     CASE t = "7:30" -> <<7, 30>> [] t = "3:00" -> <<3, 0>> [] t = "5:00" -> <<5, 0>>
       [] t = "7:00" -> <<7, 0>> [] t = "10:00" -> <<10, 0>>]
IsClock(t) == t \in ClockTokens
\* "3" -> "3:00" (the substitution \1:00 \2 of the reminder rules)
ColonZero == [t \in {"3", "5", "7", "10"} |->
     CASE t = "3" -> "3:00" [] t = "5" -> "5:00" [] t = "7" -> "7:00"
       [] t = "10" -> "10:00"]

\* ISO-8601 timestamps \d{4}-\d{2}-\d{2}T(\d{2}):(\d{2}):\d{2}: hour and minute
IsoTokens == {"2024-01-01T15:00:00", "2024-01-01T07:30:00"}
IsoVal == [t \in IsoTokens |->
     IF t = "2024-01-01T15:00:00" THEN <<15, 0>> ELSE <<7, 30>>]
\* the token written H:MM for hour h and minute m
ClockTok(h, m) == CHOOSE t \in ClockTokens : ClockVal[t] = <<h, m>>

IsPunct(t) == t \in {",", ".", "!", "?", ";", ":"}
IsQuote(t) == t \in {"'", "\""}
\* a stretch of white space inside a string value (two blanks, a tab)
IsSpace(t) == t = "  "
\* the token is \w+ and nothing else
IsWord(t) == ~IsPunct(t) /\ ~IsQuote(t) /\ ~IsSpace(t) /\ ~IsClock(t)
             /\ t \notin {"", "o'clock", "what's", "What's"} /\ t \notin IsoTokens
\* the token begins with a \w character
StartsWord(t) == ~IsPunct(t) /\ ~IsQuote(t) /\ ~IsSpace(t)
\* the token is (AM|PM|am|pm), case sensitive
IsAmPm(t) == t \in {"AM", "PM", "am", "pm"}
Upper(t) == IF t = "am" THEN "AM" ELSE IF t = "pm" THEN "PM" ELSE t

\* token i of s, or "" past the ends
Tok(s, i) == IF i >= 1 /\ i <= Len(s) THEN s[i] ELSE ""
LTok(s, i) == Lower(Tok(s, i))
\* a blank follows token i (another token that is not punctuation)
SpaceAfter(s, i) == i + 1 <= Len(s) /\ ~IsPunct(s[i + 1])
\* a blank precedes token i
SpaceBefore(s, i) == i > 1 /\ ~IsPunct(s[i])
Slice(s, a, b) == IF a > b THEN <<>> ELSE SubSeq(s, a, b)
\* least element of a non-empty set of integers
Min(S) == CHOOSE x \in S : \A y \in S : x <= y
Max2(a, b) == IF a >= b THEN a ELSE b

RECURSIVE CharLen(_)
\* number of characters of the string a token sequence stands for
CharLen(s) ==
  IF s = <<>> THEN 0
  ELSE Len(s[1]) + CharLen(Tail(s))
       + (IF Len(s) > 1 /\ ~IsPunct(s[2]) THEN 1 ELSE 0)

(***************************************************************************)
(* Tool schemas: name and the list of required parameters.                 *)
(***************************************************************************)
Tool(name, required) == [name |-> name, required |-> required]
TOOL_GET_WEATHER == Tool("get_weather", <<"location">>)
TOOL_SET_ALARM == Tool("set_alarm", <<"hour", "minute">>)
TOOL_SEND_MESSAGE == Tool("send_message", <<"recipient", "message">>)
TOOL_CREATE_REMINDER == Tool("create_reminder", <<"title", "time">>)
TOOL_SEARCH_CONTACTS == Tool("search_contacts", <<"query">>)
TOOL_PLAY_MUSIC == Tool("play_music", <<"song">>)
TOOL_SET_TIMER == Tool("set_timer", <<"minutes">>)
ALL_TOOLS == <<TOOL_GET_WEATHER, TOOL_SET_ALARM, TOOL_SEND_MESSAGE,
               TOOL_CREATE_REMINDER, TOOL_SEARCH_CONTACTS, TOOL_PLAY_MUSIC,
               TOOL_SET_TIMER>>
ToolNames(tools) == {tools[i].name : i \in 1..Len(tools)}

(***************************************************************************)
(* Intent Counter.                                                         *)
(***************************************************************************)
\* action_patterns[k] matches somewhere in s
ActionPattern(k, s) ==
  \E i \in 1..Len(s) :
    CASE k = 1 -> \/ /\ LTok(s, i) = "set"
                     /\ \/ LTok(s, i + 1) = "alarm"
                        \/ LTok(s, i + 1) \in {"a", "an"} /\ LTok(s, i + 2) = "alarm"
                  \/ LTok(s, i) = "wake" /\ LTok(s, i + 1) = "me"
      [] k = 2 -> LTok(s, i) = "timer"
      [] k = 3 -> LTok(s, i) \in {"send", "text"} /\ SpaceAfter(s, i)
                  /\ StartsWord(s[i + 1])
      [] k = 4 -> /\ LTok(s, i) \in {"check", "get", "what", "what's", "whats",
                                     "how", "how's", "hows"}
                  /\ \/ LTok(s, i + 1) = "weather"
                     \/ LTok(s, i + 1) = "the" /\ LTok(s, i + 2) = "weather"
      [] k = 5 -> \/ LTok(s, i) = "play" /\ SpaceAfter(s, i)
                  \/ LTok(s, i) = "put" /\ LTok(s, i + 1) = "on" /\ SpaceAfter(s, i + 1)
                  \/ LTok(s, i) = "listen" /\ LTok(s, i + 1) = "to" /\ SpaceAfter(s, i + 1)
      [] k = 6 -> \/ LTok(s, i) = "remind"
                  \/ /\ LTok(s, i) = "create"
                     /\ \/ LTok(s, i + 1) = "reminder"
                        \/ LTok(s, i + 1) = "a" /\ LTok(s, i + 2) = "reminder"
      [] k = 7 -> \E j \in (i + 1)..Len(s) :
                     /\ \/ LTok(s, i) \in {"find", "search"}
                        \/ LTok(s, i) = "look" /\ LTok(s, i + 1) = "up" /\ j > i + 1
                     /\ LTok(s, j) \in {"contact", "contacts", "for"}
      [] k = 8 -> LTok(s, i) = "tell" /\ IsWord(Tok(s, i + 1))
                  /\ LTok(s, i + 2) \in {"that", "to"}
NumActionPatterns == 8

_count_intents(text) ==
  Max2(Cardinality({k \in 1..NumActionPatterns : ActionPattern(k, text)}), 1)

(***************************************************************************)
(* Atomic Decomposer.                                                      *)
(***************************************************************************)
action_start == {"set", "send", "text", "check", "get", "what", "play", "remind",
                 "create", "find", "look", "search", "wake", "tell", "put",
                 "listen", "message"}
\* the lookahead (?=action_start[\s]) at token i
ActionAhead(s, i) == LTok(s, i) \in action_start /\ SpaceAfter(s, i)

\* number of tokens the separator of splitting rule r consumes at token i
\* (0: the separator does not match there)
SepLen(r, s, i) ==
  CASE r = 1 -> IF s[i] = "," /\ LTok(s, i + 1) = "and" /\ SpaceAfter(s, i + 1)
                THEN 2 ELSE 0
    [] r = 2 -> IF LTok(s, i) = "and" /\ i > 1 /\ ActionAhead(s, i + 1)
                THEN 1 ELSE 0
    [] r = 3 -> IF s[i] \in {".", "!"} /\ LTok(s, i + 1) \in {"also", "then"}
                   /\ SpaceAfter(s, i + 1) THEN 2
                ELSE IF s[i] \in {".", "!"} /\ LTok(s, i + 1) = "and"
                        /\ LTok(s, i + 2) \in {"also", "then"}
                        /\ SpaceAfter(s, i + 2) THEN 3
                ELSE 0
    [] r = 4 -> IF LTok(s, i) = "and" /\ i > 1 /\ LTok(s, i + 1) = "also"
                   /\ SpaceAfter(s, i + 1) THEN 2 ELSE 0
    [] r = 5 -> IF s[i] = "," /\ ActionAhead(s, i + 1) THEN 1 ELSE 0
    [] r = 6 -> IF LTok(s, i) = "and" /\ i > 1 /\ SpaceAfter(s, i) THEN 1 ELSE 0

RECURSIVE ReSplit(_, _)
\* re.split with the separator of rule r
ReSplit(r, s) ==
  LET hits == {i \in 1..Len(s) : SepLen(r, s, i) > 0}
  IN IF hits = {} THEN <<s>>
     ELSE LET i == Min(hits)
          IN <<Slice(s, 1, i - 1)>>
             \o ReSplit(r, Slice(s, i + SepLen(r, s, i), Len(s)))

RECURSIVE Expand(_)
\* every part split further at ", <action verb>"
Expand(parts) ==
  IF parts = <<>> THEN <<>> ELSE ReSplit(5, Head(parts)) \o Expand(Tail(parts))

RECURSIVE RStripDots(_)
\* part.strip().rstrip('.')
RStripDots(s) ==
  IF s # <<>> /\ s[Len(s)] = "." THEN RStripDots(Slice(s, 1, Len(s) - 1)) ELSE s

MinPartLen == 3

\* if len(parts) == 1: parts = re.split(<rule r>, text)
OrSplit(parts, r, text) == IF Len(parts) = 1 THEN ReSplit(r, text) ELSE parts
\* the split on a bare "and", tried when one part is left of several intents
LastSplit(parts, text) ==
  IF Len(parts) = 1 /\ _count_intents(text) >= 2 THEN ReSplit(6, text) ELSE parts
\* the parts stripped, none dropped
CleanParts_keep_all(parts) == [i \in 1..Len(parts) |-> RStripDots(parts[i])]
\* the parts stripped, those of 3 characters or less dropped
CleanParts(parts) ==
  SelectSeq([i \in 1..Len(parts) |-> RStripDots(parts[i])],
            LAMBDA p : CharLen(p) > MinPartLen)
OrWhole(cleaned, text) == IF Len(cleaned) > 1 THEN cleaned ELSE <<text>>

_split_into_atomic(text) ==
  OrWhole(
    CleanParts(
      LastSplit(
        Expand(OrSplit(OrSplit(OrSplit(ReSplit(1, text), 2, text), 3, text), 4, text)),
        text)),
    text)

(***************************************************************************)
(* Tool Pre-filter.                                                        *)
(***************************************************************************)
\* the order of the keys of _TOOL_KEYWORDS
KeywordOrder == <<"get_weather", "set_alarm", "send_message", "create_reminder",
                  "search_contacts", "play_music", "set_timer">>
\* a number at the end of the token (\b\d+)
DigitTail(t) == IsNum(t) \/ IsClock(t)
\* the token begins with "min" / with "minute"
MinPrefix(t) == t \in {"min", "mins", "minute", "minutes"}
MinutePrefix(t) == t \in {"minute", "minutes"}

\* some pattern of _TOOL_KEYWORDS[name] matches text.lower()
_TOOL_KEYWORDS(name, s) ==
  \E i \in 1..Len(s) :
    CASE name = "get_weather" ->
           \/ LTok(s, i) \in {"weather", "forecast", "temperature"}
           \/ /\ LTok(s, i) \in {"rain", "snow", "sunny", "cloudy"}
              /\ \E j \in (i + 1)..Len(s) : LTok(s, j) = "in"
           \/ LTok(s, i) = "how" /\ LTok(s, i + 1) \in {"hot", "cold", "warm"}
      [] name = "set_alarm" ->
           \/ LTok(s, i) = "alarm"
           \/ LTok(s, i) = "wake" /\ LTok(s, i + 1) \in {"me", "up"}
      [] name = "send_message" ->
           \/ /\ LTok(s, i) \in {"send", "text"}
              /\ \E j \in (i + 1)..Len(s) :
                    LTok(s, j) \in {"message", "saying", "say", "that"}
           \/ LTok(s, i) = "text" /\ SpaceAfter(s, i) /\ StartsWord(s[i + 1])
           \/ LTok(s, i) = "tell" /\ IsWord(Tok(s, i + 1))
              /\ LTok(s, i + 2) \in {"that", "to"}
           \/ LTok(s, i) \in {"send", "text"} /\ IsWord(Tok(s, i + 1))
              /\ LTok(s, i + 2) \in {"saying", "that"}
           \/ LTok(s, i) = "message" /\ SpaceAfter(s, i) /\ StartsWord(s[i + 1])
      [] name = "create_reminder" ->
           LTok(s, i) \in {"remind", "reminder"}
      [] name = "search_contacts" ->
           \/ /\ \/ LTok(s, i) \in {"find", "search", "lookup"}
                 \/ LTok(s, i) = "look" /\ LTok(s, i + 1) = "up"
              /\ \E j \in (i + 1)..Len(s) :
                    LTok(s, j) \in {"contact", "contacts"}
                    /\ (LTok(s, i) = "look" => j > i + 1)
           \/ LTok(s, i) = "contact"
              /\ LTok(s, i + 1) \in {"info", "number", "detail", "details"}
           \/ /\ \/ LTok(s, i) = "find" /\ IsWord(Tok(s, i + 1))
                    /\ LTok(s, i + 2) = "in" /\ SpaceAfter(s, i + 2)
                 \/ LTok(s, i) = "look" /\ LTok(s, i + 1) = "up"
                    /\ IsWord(Tok(s, i + 2)) /\ LTok(s, i + 3) = "in"
                    /\ SpaceAfter(s, i + 3)
      [] name = "play_music" ->
           \/ LTok(s, i) = "play"
           \/ LTok(s, i) = "put" /\ LTok(s, i + 1) = "on"
           \/ LTok(s, i) = "listen" /\ LTok(s, i + 1) = "to"
      [] name = "set_timer" ->
           \/ LTok(s, i) \in {"timer", "countdown"}
           \/ DigitTail(s[i]) /\ MinPrefix(Tok(s, i + 1))
      [] OTHER -> FALSE

\* a pre-filter that takes the first matching tool when several match
_pick_best_tool_first(text, tools) ==
  LET matches == SelectSeq(KeywordOrder,
                   LAMBDA n : n \in ToolNames(tools) /\ _TOOL_KEYWORDS(n, text))
  IN IF Len(matches) >= 1
     THEN SelectSeq(tools, LAMBDA t : t.name = matches[1])
     ELSE tools
_pick_best_tool(text, tools) ==
  LET matches == SelectSeq(KeywordOrder,
                   LAMBDA n : n \in ToolNames(tools) /\ _TOOL_KEYWORDS(n, text))
  IN IF Len(matches) = 1
     THEN SelectSeq(tools, LAMBDA t : t.name = matches[1])
     ELSE tools

(***************************************************************************)
(* Deterministic Manual Extractor.                                         *)
(***************************************************************************)
RECURSIVE RStrip(_, _)
\* s.rstrip(P)
RStrip(s, P) ==
  IF s # <<>> /\ s[Len(s)] \in P THEN RStrip(Slice(s, 1, Len(s) - 1), P) ELSE s

\* the group (.+?) that starts at token a and is closed by (?:\s*[P]?\s*$)
ToEnd(s, a, P) ==
  LET r == Slice(s, a, Len(s))
  IN IF Len(r) > 1 /\ r[Len(r)] \in P THEN Slice(r, 1, Len(r) - 1) ELSE r

\* (?:play|put\s+on|listen\s+to)\s+ at token i: index of the token after it
PlayVerb(s, i) ==
  IF LTok(s, i) = "play" /\ SpaceAfter(s, i) THEN i + 1
  ELSE IF LTok(s, i) = "put" /\ LTok(s, i + 1) = "on" /\ SpaceAfter(s, i + 1) THEN i + 2
  ELSE IF LTok(s, i) = "listen" /\ LTok(s, i + 1) = "to" /\ SpaceAfter(s, i + 1) THEN i + 2
  ELSE 0

\* some\s+(.+?)\s+music$ matched at the start of the string
SomeXMusic(song) ==
  Len(song) >= 3 /\ Lower(song[1]) = "some" /\ Lower(song[Len(song)]) = "music"

\* the token ends with in, for or at (any case)
EndsInForAt(t) == Lower(t) \in {"in", "for", "at", "what", "that"}
\* the token begins with [A-Z]
StartsUpper(t) == t \in CapTokens
\* the token is [A-Z][a-zA-Z]+
IsCapAlpha(t) == t \in CapTokens /\ t \notin {"I", "What's"}
\* the value of the digits that end the token
NumTail(t) == IF IsNum(t) THEN NumVal[t] ELSE ClockVal[t][2]
HourPrefix(t) == Lower(t) \in {"hour", "hours", "hr", "hrs"}
SecPrefix(t) == Lower(t) \in {"second", "seconds", "sec", "secs"}
\* the token begins with contact / with contact, number, phone or info
ContactPrefix(t) == Lower(t) \in {"contact", "contacts"}
ContactInfoPrefix(t) == Lower(t) \in {"contact", "contacts", "number", "phone", "info"}
\* the leading \w+ of a token
WordPrefix(t) ==
  CASE t = "o'clock" -> "o" [] t = "what's" -> "what" [] t = "What's" -> "What"
    [] IsClock(t) -> IF ClockVal[t][1] = 10 THEN "10"
                     ELSE IF ClockVal[t][1] = 7 THEN "7"
                     ELSE IF ClockVal[t][1] = 5 THEN "5" ELSE "3"
    [] OTHER -> t

\* first index of a non-empty set of token positions, 0 for the empty set
First(S) == IF S = {} THEN 0 ELSE Min(S)

ManualMusic(s) ==
  LET i == First({j \in 1..Len(s) : PlayVerb(s, j) > 0})
      song == ToEnd(s, PlayVerb(s, i), {".", ",", "!"})
  IN IF i = 0 THEN None
     ELSE Call("play_music",
            [song |-> StrV(IF SomeXMusic(song) THEN Slice(song, 2, Len(song) - 1)
                           ELSE IF Len(song) >= 2 /\ Lower(song[1]) = "some"
                                   /\ ~IsPunct(song[2])
                                THEN Tail(song) ELSE song)])

ManualWeather(s) ==
  LET P == {".", ",", "!", "?"}
      r1 == First({j \in 1..Len(s) :
               /\ LTok(s, j) \in {"weather", "forecast", "temperature"}
               /\ LTok(s, j + 1) \in {"in", "for", "at", "of"}
               /\ SpaceAfter(s, j + 1)})
      r2 == First({j \in 1..Len(s) :
               /\ LTok(s, j) \in {"rain", "snow", "sunny", "cold", "hot", "warm"}
               /\ LTok(s, j + 1) \in {"in", "at"}
               /\ SpaceAfter(s, j + 1)})
      r3 == First({j \in 1..Len(s) :
               /\ EndsInForAt(s[j]) /\ Lower(s[j]) = s[j]
               /\ SpaceAfter(s, j) /\ StartsUpper(s[j + 1])
               /\ \A k \in (j + 1)..Len(s) :
                     IsWord(s[k]) \/ (k = Len(s) /\ s[k] \in P)})
      r4 == First({j \in 1..Len(s) : EndsInForAt(s[j]) /\ SpaceAfter(s, j)})
      loc == IF r1 > 0 THEN ToEnd(s, r1 + 2, P)
             ELSE IF r2 > 0 THEN ToEnd(s, r2 + 2, P)
             ELSE IF r3 > 0 THEN ToEnd(s, r3 + 1, P)
             ELSE IF r4 > 0 THEN ToEnd(s, r4 + 1, P)
             ELSE <<>>
  IN IF CharLen(loc) > 1 THEN Call("get_weather", [location |-> StrV(loc)])
     ELSE None

\* the three duration rules that _manual_extract and _postprocess_args share:
\* <<1, minutes>> when a rule matches, <<0, 0>> otherwise
TimerMinutes(s) ==
  LET mn == First({j \in 1..Len(s) : DigitTail(s[j]) /\ MinPrefix(LTok(s, j + 1))})
      hr == First({j \in 1..Len(s) : DigitTail(s[j]) /\ HourPrefix(Tok(s, j + 1))})
      sc == First({j \in 1..Len(s) : DigitTail(s[j]) /\ SecPrefix(Tok(s, j + 1))})
  IN IF mn > 0 THEN <<1, NumTail(s[mn])>>
     ELSE IF hr > 0 THEN <<1, NumTail(s[hr]) * 60>>
     ELSE IF sc > 0 THEN <<1, Max2(1, NumTail(s[sc]) \div 60)>>
     ELSE <<0, 0>>

ManualTimer(s) ==
  IF TimerMinutes(s)[1] = 1
  THEN Call("set_timer", [minutes |-> IntV(TimerMinutes(s)[2])])
  ELSE None

\* (\d{1,2}):(\d{2})\s*(?:AM|PM|am|pm)
ClockAmPm(s) == First({j \in 1..Len(s) : IsClock(s[j]) /\ IsAmPm(Tok(s, j + 1))})
HasWord(s, w) == \E j \in 1..Len(s) : LTok(s, j) = w

ManualAlarm(s) ==
  LET tm == ClockAmPm(s)
      hm == First({j \in 1..Len(s) : IsNum2(s[j]) /\ IsAmPm(Tok(s, j + 1))})
      oc == First({j \in 1..Len(s) :
               IsNum2(s[j]) /\ LTok(s, j + 1) \in {"o'clock", "oclock"}})
      HM(h, m) == Call("set_alarm", [hour |-> IntV(h), minute |-> IntV(m)])
  IN IF tm > 0 THEN HM(ClockVal[s[tm]][1], ClockVal[s[tm]][2])
     ELSE IF hm > 0 THEN HM(NumVal[s[hm]], 0)
     ELSE IF HasWord(s, "noon") THEN HM(12, 0)
     ELSE IF HasWord(s, "midnight") THEN HM(0, 0)
     ELSE IF oc > 0 THEN HM(NumVal[s[oc]], 0)
     ELSE None

\* the head of a reminder rule at token i: index of the first title token
\* kind 1: remind\s+(?:me\s+)?(?:about|to)\s+
\* kind 2: reminder\s+(?:for|about|to)\s+
RemindHead(kind, s, i) ==
  IF kind = 1
  THEN IF LTok(s, i) = "remind" /\ LTok(s, i + 1) \in {"about", "to"}
          /\ SpaceAfter(s, i + 1) THEN i + 2
       ELSE IF LTok(s, i) = "remind" /\ LTok(s, i + 1) = "me"
               /\ LTok(s, i + 2) \in {"about", "to"} /\ SpaceAfter(s, i + 2)
            THEN i + 3
       ELSE 0
  ELSE IF LTok(s, i) = "reminder" /\ LTok(s, i + 1) \in {"for", "about", "to"}
          /\ SpaceAfter(s, i + 1) THEN i + 2
       ELSE 0

\* \s+at\s+<time> at token j; clock: H:MM AM/PM, otherwise H AM/PM
AtTime(clock, s, j) ==
  /\ LTok(s, j) = "at"
  /\ IF clock THEN IsClock(Tok(s, j + 1)) ELSE IsNum2(Tok(s, j + 1))
  /\ Lower(Tok(s, j + 2)) \in {"am", "pm"}

\* one reminder rule: <<first title token, index of "at">> or <<0, 0>>
RemindRule(kind, clock, s) ==
  LET From(h) == <<h, Min({a \in (h + 1)..Len(s) : AtTime(clock, s, a)})>>
      At(i) == IF i = 0 THEN <<0, 0>> ELSE From(RemindHead(kind, s, i))
  IN At(First({j \in 1..Len(s) :
              /\ RemindHead(kind, s, j) > 0
              /\ \E a \in (RemindHead(kind, s, j) + 1)..Len(s) : AtTime(clock, s, a)}))

\* title and time of a matched reminder rule
RemindArgs(s, m) ==
  LET Title(g1) == IF Len(g1) >= 2 /\ Lower(g1[1]) \in {"the", "a", "an"}
                      /\ ~IsPunct(g1[2])
                   THEN Tail(g1) ELSE g1
      t == s[m[2] + 1]
      ap == Upper(Lower(s[m[2] + 2]))
  IN [title |-> StrV(Title(Slice(s, m[1], m[2] - 1))),
      time |-> StrV(<<IF IsClock(t) THEN t ELSE ColonZero[t], ap>>)]

\* the reminder rules in the order they are tried: <<kind, clock>>
RemindOrder == <<<<1, TRUE>>, <<2, TRUE>>, <<1, FALSE>>, <<2, FALSE>>>>
\* the match of the first of the rules at positions ks that matches
FirstRemindRule(s, ks) ==
  LET Nth(k) == IF k = 0 THEN <<0, 0>>
                ELSE RemindRule(RemindOrder[k][1], RemindOrder[k][2], s)
  IN Nth(First({k \in ks :
                  RemindRule(RemindOrder[k][1], RemindOrder[k][2], s)[1] > 0}))

ManualReminder(s) ==
  LET Build(m) == IF m[1] > 0 THEN Call("create_reminder", RemindArgs(s, m)) ELSE None
  IN Build(FirstRemindRule(s, {1, 2, 3, 4}))

\* (?:find|look\s*up|search) at token i: index of the token after it
FindVerb(s, i) ==
  IF LTok(s, i) \in {"find", "search", "lookup"} THEN i + 1
  ELSE IF LTok(s, i) = "look" /\ LTok(s, i + 1) = "up" THEN i + 2
  ELSE 0
\* (?:in\s+)?(?:my\s+)?contact at token j
InMyContact(s, j) ==
  \/ ContactPrefix(Tok(s, j))
  \/ LTok(s, j) \in {"in", "my"} /\ ContactPrefix(Tok(s, j + 1))
  \/ LTok(s, j) = "in" /\ LTok(s, j + 1) = "my" /\ ContactPrefix(Tok(s, j + 2))

ManualContacts(s) ==
  LET \* index of the name token of rule 1 for a verb at j, or 0
      N1(j) == IF FindVerb(s, j) > 0 /\ IsWord(Tok(s, FindVerb(s, j)))
                  /\ InMyContact(s, FindVerb(s, j) + 1)
               THEN FindVerb(s, j)
               ELSE IF LTok(s, j) = "search" /\ LTok(s, j + 1) = "for"
                       /\ IsWord(Tok(s, j + 2)) /\ InMyContact(s, j + 3)
                    THEN j + 2
               ELSE 0
      N2(j) == IF FindVerb(s, j) > 0 /\ IsWord(Tok(s, FindVerb(s, j)))
                  /\ ContactInfoPrefix(Tok(s, FindVerb(s, j) + 1))
               THEN FindVerb(s, j) ELSE 0
      N3(j) == IF LTok(s, j) = "search"
               THEN IF LTok(s, j + 1) = "for" /\ SpaceAfter(s, j + 1)
                       /\ StartsWord(s[j + 2]) THEN j + 2 ELSE 0
               ELSE IF FindVerb(s, j) > 0 /\ SpaceAfter(s, FindVerb(s, j) - 1)
                       /\ StartsWord(s[FindVerb(s, j)])
                    THEN FindVerb(s, j) ELSE 0
      i1 == First({j \in 1..Len(s) : N1(j) > 0})
      i2 == First({j \in 1..Len(s) : N2(j) > 0})
      i3 == First({j \in 1..Len(s) : N3(j) > 0})
      query == IF i1 > 0 THEN s[N1(i1)]
               ELSE IF i2 > 0 THEN s[N2(i2)]
               ELSE IF i3 > 0 THEN WordPrefix(s[N3(i3)])
               ELSE ""
  IN IF query # "" /\ Lower(query) \notin {"the", "a", "an", "my", "his", "her",
                                            "their", "some", "all"}
     THEN Call("search_contacts", [query |-> StrV(<<query>>)])
     ELSE None

\* the heads of the message rules at token i: <<recipient index, first body
\* token>> or <<0, 0>>
\* 1: (?:send|text)\s+(?:a\s+)?message\s+to\s+(\w+)\s+(?:saying|that)\s+
\* 2: (?:send|text)\s+(\w+)\s+(?:a\s+)?(?:message\s+)?(?:saying|that)\s+
\* 3: (?:tell)\s+(\w+)\s+(?:that\s+|to\s+)?
\* 4: (?:message)\s+(\w+)\s+(?:saying|that)\s+
MsgHead(r, s, i) ==
  LET Say(j) == LTok(s, j) \in {"saying", "that"} /\ SpaceAfter(s, j)
      SendText == LTok(s, i) \in {"send", "text"}
      m == IF LTok(s, i + 1) = "a" THEN i + 2 ELSE i + 1
  IN CASE r = 1 ->
            IF SendText /\ LTok(s, m) = "message" /\ LTok(s, m + 1) = "to"
               /\ IsWord(Tok(s, m + 2)) /\ Say(m + 3)
            THEN <<m + 2, m + 4>> ELSE <<0, 0>>
       [] r = 2 ->
            IF SendText /\ IsWord(Tok(s, i + 1))
            THEN IF Say(i + 2) THEN <<i + 1, i + 3>>
                 ELSE IF LTok(s, i + 2) \in {"a", "message"} /\ Say(i + 3)
                      THEN <<i + 1, i + 4>>
                 ELSE IF LTok(s, i + 2) = "a" /\ LTok(s, i + 3) = "message"
                         /\ Say(i + 4)
                      THEN <<i + 1, i + 5>>
                 ELSE <<0, 0>>
            ELSE <<0, 0>>
       [] r = 3 ->
            IF LTok(s, i) = "tell" /\ IsWord(Tok(s, i + 1)) /\ SpaceAfter(s, i + 1)
            THEN IF LTok(s, i + 2) \in {"that", "to"} /\ SpaceAfter(s, i + 2)
                 THEN <<i + 1, i + 3>> ELSE <<i + 1, i + 2>>
            ELSE <<0, 0>>
       [] r = 4 ->
            IF LTok(s, i) = "message" /\ IsWord(Tok(s, i + 1)) /\ Say(i + 2)
            THEN <<i + 1, i + 3>> ELSE <<0, 0>>
\* leftmost match of message rule r
MsgRule(r, s) ==
  LET At(i) == IF i = 0 THEN <<0, 0>> ELSE MsgHead(r, s, i)
  IN IF r = 0 THEN <<0, 0>>
     ELSE At(First({j \in 1..Len(s) : MsgHead(r, s, j)[1] > 0}))
\* the first of the message rules 1..n that matches, 0 when none does
FirstMsgRule(s, n) == First({r \in 1..n : MsgRule(r, s)[1] > 0})

ManualMessage(s) ==
  LET P == {".", ",", "!", "?"}
      Build(m) ==
        IF m[1] > 0 /\ Lower(s[m[1]]) \notin {"a", "the", "an", "my"}
        THEN Call("send_message",
               [recipient |-> StrV(<<s[m[1]]>>),
                message |-> StrV(RStrip(ToEnd(s, m[2], P), P))])
        ELSE None
  IN Build(MsgRule(FirstMsgRule(s, 4), s))

_manual_extract(text, tool_name) ==
  CASE tool_name = "play_music" -> ManualMusic(text)
    [] tool_name = "get_weather" -> ManualWeather(text)
    [] tool_name = "set_timer" -> ManualTimer(text)
    [] tool_name = "set_alarm" -> ManualAlarm(text)
    [] tool_name = "create_reminder" -> ManualReminder(text)
    [] tool_name = "search_contacts" -> ManualContacts(text)
    [] tool_name = "send_message" -> ManualMessage(text)
    [] OTHER -> None

(***************************************************************************)
(* Argument cleaning and post-processing.                                  *)
(***************************************************************************)
RECURSIVE LStrip(_, _)
LStrip(s, P) == IF s # <<>> /\ s[1] \in P THEN LStrip(Tail(s), P) ELSE s
Strip(s, P) == RStrip(LStrip(s, P), P)
Spaces == {"  "}
Quotes == {"'", "\""}

_clean_arg(value) ==
  IF IsStr(value)
  THEN LET v1 == RStrip(Strip(value.s, Spaces), {".", "!", ",", ";", ":"})
           v2 == Strip(v1, Quotes)
           v3 == SelectSeq(v2, LAMBDA t : ~IsSpace(t))
           iso == IsoVal[v3[1]]
           display_hour == IF iso[1] = 0 THEN 12
                           ELSE IF iso[1] <= 12 THEN iso[1] ELSE iso[1] - 12
       IN IF v3 # <<>> /\ v3[1] \in DOMAIN IsoVal
          THEN StrV(<<ClockTok(display_hour, iso[2]),
                      IF iso[1] < 12 THEN "AM" ELSE "PM">>)
          ELSE StrV(v3)
  ELSE value

\* int(float(v)) of a string, when it succeeds
CoerceInt(args, key) ==
  IF key \in DOMAIN args /\ IsStr(args[key]) /\ Len(args[key].s) = 1
     /\ IsNum(args[key].s[1])
  THEN Set1(args, key, IntV(NumVal[args[key].s[1]]))
  ELSE args

\* the alarm rules fill in a missing hour and leave a reported one alone
PostAlarm_fill(args, s) ==
  LET tm == ClockAmPm(s)
      hm == First({j \in 1..Len(s) : IsNum2(s[j]) /\ IsAmPm(Tok(s, j + 1))})
      HM(h, m) == Set1(Set1(args, "hour", IntV(h)), "minute", IntV(m))
      a1 == IF s = <<>> \/ "hour" \in DOMAIN args THEN args
            ELSE IF tm > 0 THEN HM(ClockVal[s[tm]][1], ClockVal[s[tm]][2])
            ELSE IF hm > 0 THEN HM(NumVal[s[hm]], 0)
            ELSE args
      a2 == CoerceInt(CoerceInt(a1, "hour"), "minute")
  IN IF "minute" \notin DOMAIN a2 THEN Set1(a2, "minute", IntV(0)) ELSE a2
PostAlarm(args, s) ==
  LET tm == ClockAmPm(s)
      \* \b(\d{1,2})\s*(?:AM|PM|am|pm), no word boundary behind
      hm == First({j \in 1..Len(s) : IsNum2(s[j]) /\ IsAmPm(Tok(s, j + 1))})
      HM(h, m) == Set1(Set1(args, "hour", IntV(h)), "minute", IntV(m))
      a1 == IF s = <<>> THEN args
            ELSE IF tm > 0 THEN HM(ClockVal[s[tm]][1], ClockVal[s[tm]][2])
            ELSE IF hm > 0 THEN HM(NumVal[s[hm]], 0)
            ELSE IF HasWord(s, "noon") THEN HM(12, 0)
            ELSE IF HasWord(s, "midnight") THEN HM(0, 0)
            ELSE args
      a2 == CoerceInt(CoerceInt(a1, "hour"), "minute")
  IN IF "minute" \notin DOMAIN a2 THEN Set1(a2, "minute", IntV(0)) ELSE a2

\* verbs that close the song of play_music / the body of a message / a location
MusicStop == {"set", "send", "text", "check", "get", "remind", "create", "find",
              "look", "search", "wake", "tell", "put", "listen", "message"}
MessageStop == {"set", "check", "get", "play", "remind", "find", "look", "search"}
WeatherStop == {"set", "send", "text", "play", "remind", "find", "look", "search",
                "check", "get", "wake"}
EndPunct == {".", ",", "!", "?"}

\* the terminator of the lazy group of rule kind matches at token j
\*  "music":   ,\s*(?:and\s+)?V\b | ,\s*and\b | \s+and\s+V\b | [.,!?]\s*$
\*  "message": ,\s*(?:and\s+)?V\b | \s+and\s+V\b | [.,!?]*$
\*  "tell":    (?:,|\s+and\s+V)\b | [.,!?]*$
\*  "weather": , | \s+and\s+V | [.,!?]*$
Terminator(kind, s, j) ==
  LET Tail0 == \A k \in j..Len(s) : s[k] \in EndPunct
      AndV(V) == LTok(s, j) = "and" /\ LTok(s, j + 1) \in V
      CommaV(V) == Tok(s, j) = ","
                   /\ \/ LTok(s, j + 1) \in V
                      \/ LTok(s, j + 1) = "and" /\ LTok(s, j + 2) \in V
  IN CASE kind = "music" ->
            \/ CommaV(MusicStop)
            \/ Tok(s, j) = "," /\ LTok(s, j + 1) = "and"
            \/ AndV(MusicStop)
            \/ j = Len(s) /\ s[j] \in EndPunct
       [] kind = "message" -> CommaV(MessageStop) \/ AndV(MessageStop) \/ Tail0
       [] kind = "tell" -> AndV(MessageStop) \/ Tail0
       [] kind = "weather" -> Tok(s, j) = "," \/ AndV(WeatherStop) \/ Tail0

\* the lazy group that starts at token a: its last token, 0 without terminator
GroupEnd(kind, s, a) ==
  LET T == {j \in (a + 1)..(Len(s) + 1) : Terminator(kind, s, j)}
  IN IF a = 0 \/ a > Len(s) \/ T = {} THEN 0 ELSE Min(T) - 1

PostMusic(args, s) ==
  LET Group(a) == Slice(s, a, GroupEnd("music", s, a))
      G(i1, i2) == IF i1 > 0 THEN Group(PlayVerb(s, i1))
                   ELSE ToEnd(s, PlayVerb(s, i2), EndPunct)
      Song(extracted) ==
        StrV(IF SomeXMusic(extracted)
             THEN Slice(extracted, 2, Len(extracted) - 1)
             ELSE extracted)
      FromText(i1, i2) ==
        IF i2 > 0 THEN Set1(args, "song", Song(RStrip(G(i1, i2), EndPunct)))
        ELSE args
      song == IF "song" \in DOMAIN args THEN args.song ELSE StrV(<<>>)
  IN IF s # <<>>
     THEN FromText(First({j \in 1..Len(s) :
                      PlayVerb(s, j) > 0 /\ GroupEnd("music", s, PlayVerb(s, j)) > 0}),
                   First({j \in 1..Len(s) : PlayVerb(s, j) > 0}))
     ELSE \* some\s+(\w+)\s+music$ on the model's own value
          IF IsStr(song) /\ Len(song.s) = 3 /\ SomeXMusic(song.s) /\ IsWord(song.s[2])
          THEN Set1(args, "song", StrV(<<song.s[2]>>))
          ELSE args

PostTimer(args, s) ==
  CoerceInt(IF s # <<>> /\ TimerMinutes(s)[1] = 1
            THEN Set1(args, "minutes", IntV(TimerMinutes(s)[2]))
            ELSE args, "minutes")

PostReminder(args, s) ==
  LET Put(m) == IF m[1] > 0 THEN RemindArgs(s, m) @@ args ELSE args
  IN Put(FirstRemindRule(s, {1, 3}))

PostContacts(args, s) ==
  LET i == First({j \in 1..Len(s) :
              /\ FindVerb(s, j) > 0
              /\ IsWord(Tok(s, FindVerb(s, j)))
              /\ InMyContact(s, FindVerb(s, j) + 1)})
  IN IF i > 0 THEN Set1(args, "query", StrV(<<s[FindVerb(s, i)]>>)) ELSE args

Pronouns == {"him", "her", "them", "he", "she", "they"}
\* the capitalised words of the text that _postprocess_args does not exclude
ProperNouns(s) ==
  SelectSeq(s, LAMBDA w : IsCapWord(w)
     /\ Lower(w) \notin {"set", "send", "find", "check", "play", "remind", "text",
                         "look", "search", "wake", "what", "how", "tell"})

PostMessage(args, s) ==
  LET Recipient(rec0, proper) ==
        IF Lower(rec0) \in Pronouns /\ proper # <<>> THEN proper[1] ELSE rec0
      Put(recipient, msg) ==
        IF Lower(recipient) \notin {"a", "the", "an", "my"}
        THEN Set1(Set1(args, "recipient", StrV(<<recipient>>)), "message", StrV(msg))
        ELSE args
      Apply(r, m) ==
        Put(Recipient(s[m[1]], ProperNouns(s)),
            RStrip(Slice(s, m[2],
                         GroupEnd(IF r = 3 THEN "tell" ELSE "message", s, m[2])),
                   EndPunct))
      Rule(r) == IF r = 0 THEN args ELSE Apply(r, MsgRule(r, s))
  IN Rule(FirstMsgRule(s, 3))

RECURSIVE CapRun(_, _)
\* last token of the run [A-Z][a-zA-Z]+(?:\s+[A-Z][a-zA-Z]+)* that starts at a
CapRun(s, a) ==
  IF SpaceAfter(s, a) /\ IsCapAlpha(s[a + 1]) THEN CapRun(s, a + 1) ELSE a

PostWeather(args, s) ==
  LET \* first token of the location of rule 1 for "weather" at j, or 0
      H(j) == IF LTok(s, j) \in {"weather", "forecast", "temperature"}
              THEN IF LTok(s, j + 1) \in {"in", "for", "at"} /\ SpaceAfter(s, j + 1)
                   THEN j + 2
                   ELSE IF LTok(s, j + 1) = "like" /\ LTok(s, j + 2) \in {"in", "for", "at"}
                           /\ SpaceAfter(s, j + 2)
                        THEN j + 3 ELSE 0
              ELSE 0
      i1 == First({j \in 1..Len(s) : H(j) > 0})
      i2 == First({j \in 1..Len(s) :
               s[j] \in {"in", "for", "at"} /\ SpaceAfter(s, j) /\ IsCapAlpha(s[j + 1])})
      g == IF i1 > 0 THEN Slice(s, H(i1), GroupEnd("weather", s, H(i1)))
           ELSE IF i2 > 0 THEN Slice(s, i2 + 1, CapRun(s, i2 + 1))
           ELSE <<>>
      location == RStrip(g, EndPunct)
  IN IF CharLen(location) > 1 THEN Set1(args, "location", StrV(location)) ELSE args

\* val.isdigit() strings become integers
NumericCoercion(args) ==
  [key \in DOMAIN args |->
     IF IsStr(args[key]) /\ Len(args[key].s) = 1 /\ IsNum(args[key].s[1])
     THEN IntV(NumVal[args[key].s[1]]) ELSE args[key]]

_postprocess_args(call, user_text) ==
  LET name == call.name
      args == call.arguments
      a == CASE name = "set_alarm" -> PostAlarm(args, user_text)
             [] name = "play_music" -> PostMusic(args, user_text)
             [] name = "set_timer" -> PostTimer(args, user_text)
             [] name = "create_reminder" /\ user_text # <<>> -> PostReminder(args, user_text)
             [] name = "search_contacts" /\ user_text # <<>> -> PostContacts(args, user_text)
             [] name = "send_message" /\ user_text # <<>> -> PostMessage(args, user_text)
             [] name = "get_weather" /\ user_text # <<>> -> PostWeather(args, user_text)
             [] OTHER -> args
  IN Call(name, NumericCoercion(a))

_clean_calls(calls, user_text) ==
  [i \in 1..Len(calls) |->
     _postprocess_args(
        Call(calls[i].name,
             [key \in DOMAIN calls[i].arguments |-> _clean_arg(calls[i].arguments[key])]),
        user_text)]

(***************************************************************************)
(* Validator and Local-Result Acceptance Policy.                           *)
(***************************************************************************)
Blank(v) == IsStr(v) /\ \A i \in 1..Len(v.s) : IsSpace(v.s[i])

\* the required arguments need only be present
_validate_call_keys_only(call, tools) ==
  /\ call.name \in ToolNames(tools)
  /\ LET tool == tools[Min({i \in 1..Len(tools) : tools[i].name = call.name})]
     IN \A i \in 1..Len(tool.required) : tool.required[i] \in DOMAIN call.arguments
_validate_call(call, tools) ==
  /\ call.name \in ToolNames(tools)
  /\ LET tool == tools[Min({i \in 1..Len(tools) : tools[i].name = call.name})]
     IN \A i \in 1..Len(tool.required) :
           /\ tool.required[i] \in DOMAIN call.arguments
           /\ ~Blank(call.arguments[tool.required[i]])

ValidCalls(calls, tools) == SelectSeq(calls, LAMBDA c : _validate_call(c, tools))

\* confidence is kept in hundredths
ConfidenceThreshold == 15

\* a policy that does not validate the calls
_local_is_good_unvalidated(local, tools) ==
  /\ ~local.cloud_handoff
  /\ local.function_calls # <<>>
  /\ ~(local.confidence < ConfidenceThreshold)
\* a policy that does not look at the confidence
_local_is_good_any_confidence(local, tools) ==
  /\ ~local.cloud_handoff
  /\ local.function_calls # <<>>
  /\ ValidCalls(local.function_calls, tools) # <<>>
_local_is_good(local, tools) ==
  /\ ~local.cloud_handoff
  /\ local.function_calls # <<>>
  /\ ValidCalls(local.function_calls, tools) # <<>>
  /\ ~(local.confidence < ConfidenceThreshold)

(***************************************************************************)
(* Requests.                                                               *)
(***************************************************************************)
T_alarm730 == <<"Set", "an", "alarm", "for", "7:30", "AM">>
T_alarm10 == <<"Set", "an", "alarm", "for", "10", "AM">>
T_oclock == <<"Set", "an", "alarm", "for", "7", "o'clock">>
T_timer_weather == <<"Set", "a", "timer", "for", "10", "minutes", "and", "check",
                     "the", "weather", "in", "Boston">>
T_msg_and == <<"Send", "a", "message", "to", "Alice", "saying", "hello", "and",
               "goodbye", ".">>
T_pronoun == <<"Look", "up", "Maria", "in", "my", "contacts", "and", "send", "her",
               "a", "message", "saying", "call", "me", "back">>
T_somejazz == <<"Play", "some", "jazz">>
T_three == <<"Text", "Emma", "saying", "good", "night", ",", "check", "the",
             "weather", "in", "Chicago", ",", "and", "set", "an", "alarm", "for",
             "5", "AM">>
T_nosplit == <<"Set", "a", "timer", "to", "remind", "me">>
T_hello == <<"Hello", "there">>
T_timer_noloc == <<"Set", "a", "timer", "for", "5", "minutes", "and", "check",
                   "the", "weather">>
T_empty == <<>>
T_alarm_notime == <<"Set", "an", "alarm">>
T_text_tell == <<"Text", "Alice", "to", "tell", "her", "that", "I", "am", "in",
                 "Boston">>
T_alarm_remind == <<"Set", "an", "alarm", "for", "7", "and", "remind", "me", "to",
                    "call", "Alice", "at", "5", "PM">>
T_jazz_semi == <<"Play", "jazz", ";">>
T_get_pronoun == <<"Get", "the", "weather", "in", "Paris", "and", "send", "her", "a",
                   "message", "saying", "hello">>
T_then_pronoun == <<"Then", "look", "up", "Maria", "in", "my", "contacts", "and",
                    "send", "her", "a", "message", "saying", "call", "me", "back">>
Texts == {T_alarm730, T_alarm10, T_oclock, T_timer_weather, T_msg_and, T_pronoun,
          T_somejazz, T_three, T_nosplit, T_hello, T_timer_noloc, T_empty,
          T_text_tell, T_alarm_notime, T_alarm_remind, T_jazz_semi,
          T_get_pronoun, T_then_pronoun}


Msg(role, content) == [role |-> role, content |-> content]
\* the requests of the callers: one user message (app.py, demo.py,
\* test_deep.py) with all tools, or with the alarm tool alone
Requests ==
  {[messages |-> <<Msg("user", t)>>, tools |-> ALL_TOOLS] : t \in Texts}
  \cup {[messages |-> <<Msg("user", t)>>, tools |-> <<TOOL_SET_ALARM>>] :
           t \in {T_alarm730, T_three}}

RECURSIVE LastUser(_)
\* user_text: the content of the last user message, "" without one
LastUser(msgs) ==
  IF msgs = <<>> THEN <<>>
  ELSE IF msgs[Len(msgs)].role = "user" THEN msgs[Len(msgs)].content
  ELSE LastUser(Slice(msgs, 1, Len(msgs) - 1))

(***************************************************************************)
(* What the two adapters may answer.                                       *)
(***************************************************************************)
\* a call of tool n with the unreliable arguments of the on-device model
WrongCall(n) ==
  CASE n = "set_alarm" -> Call(n, [hour |-> IntV(3), minute |-> IntV(9)])
    [] n = "get_weather" -> Call(n, [location |-> StrV(<<"Paris">>)])
    [] n = "send_message" ->
         Call(n, [recipient |-> StrV(<<"her">>), message |-> StrV(<<"hello", ".">>)])
    [] n = "create_reminder" ->
         Call(n, [title |-> StrV(<<"call">>), time |-> StrV(<<"3", "PM">>)])
    [] n = "search_contacts" -> Call(n, [query |-> StrV(<<"Alice">>)])
    [] n = "play_music" -> Call(n, [song |-> StrV(<<"some", "jazz", "music">>)])
    [] n = "set_timer" -> Call(n, [minutes |-> StrV(<<"90">>)])
\* a call that passes validation and whose argument is blank once cleaned
DotCall == Call("get_weather", [location |-> StrV(<<".">>)])
\* a call to a tool that was not offered
UnknownCall == Call("open_app", NoArgs)
\* a call without a required argument
PartialCall == Call("get_weather", NoArgs)
\* a call of the alarm tool with an argument its schema does not have
ExtraCall ==
  Call("set_alarm", [hour |-> IntV(3), minute |-> IntV(9), label |-> StrV(<<"x">>)])

\* the offered tools whose keywords occur in the text
KeywordTools(text, tools) == {n \in ToolNames(tools) : _TOOL_KEYWORDS(n, text)}
\* the on-device model answers with the tools the text is about (for an
\* alarm, with or without an argument of its own making), with a tool that
\* does not exist and, when the text is not about exactly one tool, with an
\* unrelated tool
ModelCandidates(text, tools) ==
  LET Of(kw) == {WrongCall(n) : n \in kw} \cup {UnknownCall}
                \cup (IF Cardinality(kw) = 1 THEN {} ELSE {DotCall})
                \cup (IF "set_alarm" \in kw THEN {ExtraCall} ELSE {})
  IN Of(KeywordTools(text, tools))
\* the cloud model answers with the tools the text is about, and may leave
\* out a required argument
CloudCandidates(text, tools) ==
  {WrongCall(n) : n \in KeywordTools(text, tools)} \cup {PartialCall}
SeqsUpTo(S, n) == UNION {[1..k -> S] : k \in 0..n}
\* the latency an adapter reports for a call that was answered
TimeVals == 1..MaxTimeMs
\* confidence in hundredths
ConfVals == {0, 15}

\* the outcomes of cactus_init / cactus_reset / cactus_complete and the text
\* cactus_complete returns: raw.kind is
\*   "no_model"        no runtime, no weights or cactus_init raises
\*   "reset_raises"    cactus_reset raises
\*   "complete_raises" cactus_complete raises
\*   "object"          the text is a JSON object
\*   "salvaged"        not JSON; a balanced {"success" ...} object inside parses
\*   "garbage"         not JSON, no {"success" inside
\*   "unbalanced"      not JSON, {"success" inside, no balanced object parses
\*   "nonobject"       JSON that is no object (a list, a number, null)
FailKinds == {"no_model", "reset_raises", "complete_raises", "garbage", "unbalanced"}
RawOutputs(text, tools) ==
  [kind : FailKinds \cup {"nonobject"}, obj : {<<>>}]
  \cup [kind : {"object", "salvaged"},
        obj : [function_calls : SeqsUpTo(ModelCandidates(text, tools), MaxCalls),
               total_time_ms : TimeVals,
               confidence : ConfVals,
               cloud_handoff : BOOLEAN]]

\* the outcomes of the cloud client: out.kind is
\*   "no_gemini"     HAS_GEMINI is false
\*   "client_raises" genai.Client(...) raises
\*   "ok"            the first generate_content answers
\*   "retry_ok"      the first raises, the second answers
\*   "both_fail"     both raise
CloudOutputs(text, tools) ==
  [kind : {"no_gemini", "client_raises"}, function_calls : {<<>>}, total_time_ms : {0}]
  \cup [kind : {"both_fail"}, function_calls : {<<>>}, total_time_ms : TimeVals]
  \cup [kind : {"ok", "retry_ok"},
        function_calls : SeqsUpTo(CloudCandidates(text, tools), MaxCalls),
        total_time_ms : TimeVals]

(***************************************************************************)
(* State.                                                                  *)
(***************************************************************************)
VARIABLES
  messages,       \* argument of generate_hybrid
  tools,          \* argument of generate_hybrid
  pc,             \* position in generate_hybrid
  _model,         \* the module-level handle, 0 for None
  handles,        \* number of handles cactus_init has returned so far
  user_text, total_time, all_calls, used_cloud, intent_count,
  atomic_parts, local_results, local_time, all_good,
  part,           \* index into atomic_parts of the loop of the MULTI path
  cloud_resp,     \* what generate_cloud returned, <<>> before it is called
  result,         \* the returned RouteResult
  log,            \* the calls made to the adapters and the extractor, in order
  reported,       \* the total_time_ms every adapter call returned, in order
  origin,         \* for every entry of local_results: the part it was produced
                  \* for, and the call as repaired against the text of that part
  adapter_result, \* the adapter result the acceptance policy is asked about when
                  \* it is taken on its own, <<>> otherwise: the router judges a
                  \* result in the step that obtains it and does not keep it
  threads,        \* for every request thread of the HTTP front-end: its position
                  \* in the handle management, the handle _cactus_call holds in
                  \* `model`, and the model calls it has made; <<>> when one
                  \* invocation runs alone
  destroyed,      \* the handles cactus_destroy was called on by the threads
  raw_str,        \* the text cactus_complete returned, when the reading of it
                  \* is taken on its own
  salvaged        \* the part of raw_str that json.loads accepted

\* no text
NoText == <<"(none)">>
\* the state the router leaves alone
beside == <<adapter_result, threads, destroyed, raw_str, salvaged>>
vars == <<messages, tools, pc, _model, handles, user_text, total_time, all_calls,
          used_cloud, intent_count, atomic_parts, local_results, local_time,
          all_good, part, cloud_resp, result, log, reported, origin, beside>>

NoResult == [function_calls |-> <<>>, total_time_ms |-> 0, source |-> "", confidence |-> 0]
\* an entry of the log: ev is "model" (_cactus_call is entered), "destroy",
\* "init", "reset", "complete" (with the handle h), "accepted" or "rejected"
\* (what _local_is_good said of the model's result), "manual" (the manual
\* extractor is called), "extracted" or "nothing" (whether it gave a valid
\* call), or "cloud" (generate_cloud is entered, with what its transport
\* attempts gave, in order); part is the atomic part at work (0: the whole
\* text); msgs and tls are the messages and the tool names handed to an
\* adapter
Ev(ev, h, p, msgs, tls, tries) ==
  [ev |-> ev, h |-> h, part |-> p, msgs |-> msgs,
   tools |-> [i \in 1..Len(tls) |-> tls[i].name], tries |-> tries]
\* the log entries of the two decisions
Verdict(good, p) == Ev(IF good THEN "accepted" ELSE "rejected", 0, p, <<>>, <<>>, <<>>)
Extracted(ok, p) == Ev(IF ok THEN "extracted" ELSE "nothing", 0, p, <<>>, <<>>, <<>>)

Init ==
  /\ \E req \in Requests : messages = req.messages /\ tools = req.tools
  /\ pc = "START"
  /\ _model \in {0, 1}      \* None, or the handle an earlier invocation left
  /\ handles = _model
  /\ user_text = <<>>
  /\ total_time = 0
  /\ all_calls = <<>>
  /\ used_cloud = FALSE
  /\ intent_count = 0
  /\ atomic_parts = <<>>
  /\ local_results = <<>>
  /\ local_time = 0
  /\ all_good = TRUE
  /\ part = 0
  /\ cloud_resp = <<>>
  /\ result = NoResult
  /\ log = <<>>
  /\ reported = <<>>
  /\ origin = <<>>
  /\ adapter_result = <<>>
  /\ threads = <<>>
  /\ destroyed = {}
  /\ raw_str = NoText
  /\ salvaged = NoText

(***************************************************************************)
(* The adapters.                                                           *)
(***************************************************************************)
\* _fresh_model: the handle and the log after it
FreshLog(m, lg) == IF m # 0 THEN Append(lg, Ev("destroy", m, 0, <<>>, <<>>, <<>>)) ELSE lg

FailLocal == [function_calls |-> <<>>, total_time_ms |-> 0, confidence |-> 0,
              cloud_handoff |-> TRUE]

\* _cactus_call(messages, tools) when the runtime behaves as raw says, started
\* with handle m, n handles created so far and log lg, at work on part p:
\* the record returned (or raised: an exception leaves the function), the
\* handle, the number of handles and the log afterwards
_cactus_call(raw, msgs, tls, m, n, lg, p) ==
  LET h == IF m # 0 THEN m ELSE n + 1
      lg0 == Append(lg, Ev("model", 0, p, msgs, tls, <<>>))
      lg1 == IF m = 0 THEN Append(lg0, Ev("init", h, p, <<>>, <<>>, <<>>)) ELSE lg0
      lg2 == Append(lg1, Ev("reset", h, p, <<>>, <<>>, <<>>))
      lg3 == Append(lg2, Ev("complete", h, p, msgs, tls, <<>>))
      R(raised, local, lgx) ==
        [raised |-> raised, local |-> local, model |-> h,
         handles |-> Max2(n, h), log |-> lgx]
  IN CASE raw.kind = "no_model" ->
            [raised |-> FALSE, local |-> FailLocal, model |-> m, handles |-> n,
             log |-> lg0]
       [] raw.kind = "reset_raises" -> R(FALSE, FailLocal, lg2)
       [] raw.kind \in {"complete_raises", "garbage", "unbalanced"} ->
            R(FALSE, FailLocal, lg3)
       [] raw.kind = "nonobject" -> R(TRUE, FailLocal, lg3)
       [] raw.kind \in {"object", "salvaged"} -> R(FALSE, raw.obj, lg3)

\* a transport that tries a second time whatever the first attempt gave
TransportAttempts_twice(out) ==
  IF out.kind \in {"no_gemini", "client_raises"} THEN <<>>
  ELSE <<IF out.kind = "ok" THEN "ok" ELSE "raises",
         IF out.kind \in {"ok", "retry_ok"} THEN "ok" ELSE "raises">>
\* the calls of generate_content that generate_cloud makes, with what each
\* gave: none without the client, one that answers, or one that raises and,
\* after the pause, a second
TransportAttempts(out) ==
  IF out.kind \in {"no_gemini", "client_raises"} THEN <<>>
  ELSE IF out.kind = "ok" THEN <<"ok">>
  ELSE <<"raises", IF out.kind = "retry_ok" THEN "ok" ELSE "raises">>

\* generate_cloud(messages, tools) when the client behaves as out says
generate_cloud(out, msgs, tls, lg) ==
  [raised |-> out.kind = "client_raises",
   cloud |-> [function_calls |-> out.function_calls,
              total_time_ms |-> out.total_time_ms],
   log |-> Append(lg, Ev("cloud", 0, 0, msgs, tls, TransportAttempts(out)))]

(***************************************************************************)
(* generate_hybrid, step by step.                                          *)
(***************************************************************************)
\* an exception leaves generate_hybrid
Raise(lg) ==
  /\ pc' = "RAISED"
  /\ log' = lg
  /\ UNCHANGED <<beside, messages, tools, user_text, total_time, all_calls, used_cloud,
                 intent_count, atomic_parts, local_results, origin, local_time, all_good,
                 part, cloud_resp, reported, result>>

Start ==
  /\ pc = "START"
  /\ _model' = 0
  /\ log' = FreshLog(_model, log)
  /\ user_text' = LastUser(messages)
  /\ total_time' = 0
  /\ all_calls' = <<>>
  /\ used_cloud' = FALSE
  /\ pc' = "COUNT"
  /\ UNCHANGED <<beside, messages, tools, handles, intent_count, atomic_parts,
                 local_results, origin, local_time, all_good, part, cloud_resp, reported, result>>

Count ==
  /\ pc = "COUNT"
  /\ intent_count' = _count_intents(user_text)
  /\ pc' = IF intent_count' >= 2 THEN "MULTI" ELSE "SINGLE"
  /\ UNCHANGED <<beside, messages, tools, _model, handles, user_text, total_time,
                 all_calls, used_cloud, atomic_parts, local_results, origin, local_time,
                 all_good, part, cloud_resp, reported, result, log>>

\* the tool list handed to the model and the tool of the manual extractor
\* ("" for None) of the SINGLE path
filtered_tools == _pick_best_tool(user_text, tools)
BestName(filtered) == IF Len(filtered) = 1 THEN filtered[1].name ELSE ""
best_tool_name == BestName(filtered_tools)

\* one model attempt on the whole text: the call with tool list tls, the
\* acceptance policy, and the branch to pc value rejected when it says no
WholeAttempt(fresh, tls, rejected) ==
  \E raw \in RawOutputs(user_text, tools) :
    LET m0 == IF fresh THEN 0 ELSE _model
        lg0 == IF fresh THEN FreshLog(_model, log) ELSE log
        r == _cactus_call(raw, messages, tls, m0, handles, lg0, 0)
    IN /\ raw.kind = "no_model" => m0 = 0
       /\ _model' = r.model
       /\ handles' = r.handles
       /\ IF r.raised THEN Raise(r.log)
          ELSE /\ log' = Append(r.log, Verdict(_local_is_good(r.local, tools), 0))
               /\ total_time' = total_time + r.local.total_time_ms
               /\ reported' = Append(reported, r.local.total_time_ms)
               /\ IF _local_is_good(r.local, tools)
                  THEN /\ all_calls' = ValidCalls(r.local.function_calls, tools)
                       /\ pc' = "CLEAN"
                  ELSE /\ all_calls' = all_calls
                       /\ pc' = rejected
               /\ UNCHANGED <<beside, messages, tools, user_text, used_cloud, intent_count,
                              atomic_parts, local_results, origin, local_time, all_good,
                              part, cloud_resp, result>>

\* the messages handed to the cloud are those of the failed part
cloud_messages_part ==
  IF part > 0 THEN <<Msg("user", atomic_parts[part])>> ELSE messages
\* the messages handed to the cloud: the caller's, whatever part failed
cloud_messages == messages

\* the cloud as last resort, its time left out of the total
WholeCloud_untimed ==
  \E out \in CloudOutputs(user_text, tools) :
    LET c == generate_cloud(out, cloud_messages, tools, log)
    IN IF c.raised THEN Raise(c.log) /\ UNCHANGED <<_model, handles>>
       ELSE /\ log' = c.log
            /\ reported' = Append(reported, c.cloud.total_time_ms)
            /\ all_calls' = c.cloud.function_calls
            /\ cloud_resp' = c.cloud.function_calls
            /\ used_cloud' = TRUE
            /\ pc' = "CLEAN"
            /\ UNCHANGED <<beside, messages, tools, _model, handles, user_text, total_time,
                           intent_count, atomic_parts, local_results, origin,
                           local_time, all_good, part, result>>
\* the cloud as last resort of a whole-text path
WholeCloud ==
  \E out \in CloudOutputs(user_text, tools) :
    LET c == generate_cloud(out, cloud_messages, tools, log)
    IN IF c.raised THEN Raise(c.log) /\ UNCHANGED <<_model, handles>>
       ELSE /\ log' = c.log
            /\ total_time' = total_time + c.cloud.total_time_ms
            /\ reported' = Append(reported, c.cloud.total_time_ms)
            /\ all_calls' = c.cloud.function_calls
            /\ cloud_resp' = c.cloud.function_calls
            /\ used_cloud' = TRUE
            /\ pc' = "CLEAN"
            /\ UNCHANGED <<beside, messages, tools, _model, handles, user_text,
                           intent_count, atomic_parts, local_results, origin, local_time,
                           all_good, part, result>>

\* the first attempt hands over to the retry without manual extraction
Single_no_manual == pc = "SINGLE" /\ WholeAttempt(FALSE, filtered_tools, "S_RETRY")
Single == pc = "SINGLE" /\ WholeAttempt(FALSE, filtered_tools, "S_MANUAL")

SingleManual ==
  /\ pc = "S_MANUAL"
  /\ LET Fallback(best_name, manual) ==
           /\ log' = IF best_name # ""
                     THEN log \o <<Ev("manual", 0, 0, <<>>, <<>>, <<>>),
                                   Extracted(manual # None /\ _validate_call(manual, tools), 0)>>
                     ELSE log
           /\ IF manual # None /\ _validate_call(manual, tools)
              THEN all_calls' = <<manual>> /\ pc' = "CLEAN"
              ELSE all_calls' = all_calls /\ pc' = "S_RETRY"
         With(best_name) ==
           Fallback(best_name,
                    IF best_name # "" THEN _manual_extract(user_text, best_name) ELSE None)
     IN With(best_tool_name)
  /\ UNCHANGED <<beside, messages, tools, _model, handles, user_text, total_time,
                 used_cloud, intent_count, atomic_parts, local_results, origin,
                 local_time, all_good, part, cloud_resp, reported, result>>

\* the retry on the handle the first attempt left
SingleRetry_same_handle == pc = "S_RETRY" /\ WholeAttempt(FALSE, filtered_tools, "S_CLOUD")
SingleRetry == pc = "S_RETRY" /\ WholeAttempt(TRUE, filtered_tools, "S_CLOUD")

SingleCloud == pc = "S_CLOUD" /\ WholeCloud

\* proper nouns of the full text, for the pronoun resolution of the MULTI path
proper_nouns ==
  SelectSeq(user_text, LAMBDA w : IsCapWord(w)
     /\ Lower(w) \notin {"set", "send", "find", "check", "play", "remind", "text",
                         "look", "search", "wake", "what", "how", "tell", "put",
                         "listen", "message", "also", "then"})

\* a recipient that is a pronoun is replaced by the first proper noun
ResolvePronoun(call) ==
  IF /\ call.name = "send_message"
     /\ "recipient" \in DOMAIN call.arguments
     /\ IsStr(call.arguments.recipient)
     /\ Len(call.arguments.recipient.s) = 1
     /\ Lower(call.arguments.recipient.s[1]) \in Pronouns
     /\ proper_nouns # <<>>
  THEN Call(call.name, Set1(call.arguments, "recipient", StrV(<<proper_nouns[1]>>)))
  ELSE call

MultiSplit ==
  /\ pc = "MULTI"
  /\ atomic_parts' = _split_into_atomic(user_text)
  /\ IF Len(atomic_parts') < 2
     THEN pc' = "M_WHOLE" /\ UNCHANGED <<local_results, origin, local_time, all_good, part>>
     ELSE /\ local_results' = <<>>
          /\ origin' = <<>>
          /\ local_time' = 0
          /\ all_good' = TRUE
          /\ part' = 1
          /\ pc' = "M_PART"
  /\ UNCHANGED <<beside, messages, tools, _model, handles, user_text, total_time,
                 all_calls, used_cloud, intent_count, cloud_resp, reported, result, log>>

\* splitting failed: the model on the whole text with the narrowed tools
MultiWhole_narrowed == pc = "M_WHOLE" /\ WholeAttempt(FALSE, filtered_tools, "M_WHOLE_CLOUD")
\* splitting failed: the model on the whole text with all tools, then the cloud
MultiWhole == pc = "M_WHOLE" /\ WholeAttempt(FALSE, tools, "M_WHOLE_CLOUD")

MultiWholeCloud == pc = "M_WHOLE_CLOUD" /\ WholeCloud

\* continue: the next part, or the end of the loop
\* the next part goes to the manual extractor at once
Continue_manual_next ==
  IF part = Len(atomic_parts)
  THEN pc' = "M_JOIN" /\ part' = part
  ELSE pc' = "M_MANUAL" /\ part' = part + 1
Continue ==
  IF part = Len(atomic_parts)
  THEN pc' = "M_JOIN" /\ part' = part
  ELSE pc' = "M_PART" /\ part' = part + 1

\* the loop body up to the acceptance of the model's result for one part
MultiPartModel ==
  /\ pc = "M_PART"
  /\ LET Keep(repaired) ==
           /\ local_results' = local_results \o
                [i \in 1..Len(repaired) |-> ResolvePronoun(repaired[i])]
           /\ origin' = origin \o
                [i \in 1..Len(repaired) |-> [part |-> part, call |-> repaired[i]]]
         Judge(r, text, good, valid) ==
           /\ _model' = r.model
           /\ handles' = r.handles
           /\ IF r.raised
              THEN Raise(r.log)
              ELSE /\ log' = Append(r.log, Verdict(good, part))
                   /\ local_time' = local_time + r.local.total_time_ms
                   /\ reported' = Append(reported, r.local.total_time_ms)
                   /\ IF good
                      THEN /\ Keep([i \in 1..Len(valid) |->
                                      _postprocess_args(valid[i], text)])
                           /\ Continue
                      ELSE /\ local_results' = local_results
                           /\ origin' = origin
                           /\ part' = part
                           /\ pc' = "M_MANUAL"
                   /\ UNCHANGED <<beside, messages, tools, user_text, total_time, all_calls,
                                  used_cloud, intent_count, atomic_parts, all_good,
                                  cloud_resp, result>>
         Attempt(text, sub_messages, filtered, fresh) ==
           \E raw \in RawOutputs(text, tools) :
             LET Of(r) == Judge(r, text, _local_is_good(r.local, tools),
                                ValidCalls(r.local.function_calls, tools))
             IN Of(_cactus_call(raw, sub_messages, filtered, 0, handles, fresh, part))
     IN Attempt(atomic_parts[part], <<Msg("user", atomic_parts[part])>>,
                _pick_best_tool(atomic_parts[part], tools), FreshLog(_model, log))

\* the manual extraction of one part, and the end of the local attempt when
\* it fails as well
MultiPartManual ==
  /\ pc = "M_MANUAL"
  /\ LET Fallback(best_name, manual) ==
           /\ log' = IF best_name # ""
                     THEN log \o <<Ev("manual", 0, part, <<>>, <<>>, <<>>),
                                   Extracted(manual # None /\ _validate_call(manual, tools), part)>>
                     ELSE log
           /\ IF manual # None /\ _validate_call(manual, tools)
              THEN /\ local_results' = Append(local_results, ResolvePronoun(manual))
                   /\ origin' = Append(origin, [part |-> part, call |-> manual])
                   /\ all_good' = all_good
                   /\ Continue
              ELSE /\ all_good' = FALSE
                   /\ pc' = "M_JOIN"
                   /\ UNCHANGED <<local_results, origin, part>>
         With(text, best_name) ==
           Fallback(best_name,
                    IF best_name # "" THEN _manual_extract(text, best_name) ELSE None)
     IN With(atomic_parts[part], BestName(_pick_best_tool(atomic_parts[part], tools)))
  /\ UNCHANGED <<beside, messages, tools, _model, handles, user_text, total_time,
                 all_calls, used_cloud, intent_count, atomic_parts, local_time,
                 cloud_resp, reported, result>>

\* the end of the loop keeps what the parts before the failed one gave
MultiJoin_partial ==
  /\ pc = "M_JOIN"
  /\ total_time' = total_time + local_time
  /\ IF local_results # <<>>
     THEN all_calls' = local_results /\ pc' = "CLEAN"
     ELSE all_calls' = all_calls /\ pc' = "M_CLOUD"
  /\ UNCHANGED <<beside, messages, tools, _model, handles, user_text, used_cloud,
                 intent_count, atomic_parts, local_results, origin, local_time, all_good,
                 part, cloud_resp, reported, result, log>>
MultiJoin ==
  /\ pc = "M_JOIN"
  /\ total_time' = total_time + local_time
  /\ IF all_good /\ local_results # <<>>
     THEN all_calls' = local_results /\ pc' = "CLEAN"
     ELSE all_calls' = all_calls /\ pc' = "M_CLOUD"
  /\ UNCHANGED <<beside, messages, tools, _model, handles, user_text, used_cloud,
                 intent_count, atomic_parts, local_results, origin, local_time, all_good,
                 part, cloud_resp, reported, result, log>>

RECURSIVE Supplement(_, _, _)
\* the calls appended to the cloud's calls: for the parts from index i on, the
\* manual extraction of the part's one tool when the cloud did not name this tool
Supplement(i, returned_names, tls) ==
  IF i > Len(atomic_parts) THEN <<>>
  ELSE LET Fill(manual) ==
             IF manual # None /\ _validate_call(manual, tls)
             THEN <<ResolvePronoun(manual)>> ELSE <<>>
           Of(text, best) ==
             IF Len(best) = 1 /\ best[1].name \notin returned_names
             THEN Fill(_manual_extract(text, best[1].name)) ELSE <<>>
       IN Of(atomic_parts[i], _pick_best_tool(atomic_parts[i], tls))
          \o Supplement(i + 1, returned_names, tls)

RECURSIVE SupplementLog(_, _, _)
\* the log entries of these manual extractions
SupplementLog(i, returned_names, tls) ==
  IF i > Len(atomic_parts) THEN <<>>
  ELSE LET Tried(manual) ==
             <<Ev("manual", 0, i, <<>>, <<>>, <<>>),
               Extracted(manual # None /\ _validate_call(manual, tls), i)>>
           Of(text, best) ==
             IF Len(best) = 1 /\ best[1].name \notin returned_names
             THEN Tried(_manual_extract(text, best[1].name)) ELSE <<>>
       IN Of(atomic_parts[i], _pick_best_tool(atomic_parts[i], tls))
          \o SupplementLog(i + 1, returned_names, tls)

Names(calls) == {calls[i].name : i \in 1..Len(calls)}

\* the cloud's calls, supplemented only when the cloud gave none
WithSupplement_empty(calls, tls) ==
  IF Len(calls) = 0
  THEN calls \o Supplement(1, Names(calls), tls)
  ELSE calls
\* the cloud's calls, supplemented when they are fewer than the parts
WithSupplement(calls, tls) ==
  IF Len(calls) < Len(atomic_parts)
  THEN calls \o Supplement(1, Names(calls), tls)
  ELSE calls

MultiCloud ==
  /\ pc = "M_CLOUD"
  /\ \E out \in CloudOutputs(user_text, tools) :
       LET c == generate_cloud(out, cloud_messages, tools, log)
       IN IF c.raised THEN Raise(c.log)
          ELSE /\ log' = IF Len(c.cloud.function_calls) < Len(atomic_parts)
                         THEN c.log \o SupplementLog(1, Names(c.cloud.function_calls),
                                                     tools)
                         ELSE c.log
               /\ total_time' = total_time + c.cloud.total_time_ms
               /\ reported' = Append(reported, c.cloud.total_time_ms)
               /\ cloud_resp' = c.cloud.function_calls
               /\ all_calls' = WithSupplement(c.cloud.function_calls, tools)
               /\ used_cloud' = TRUE
               /\ pc' = "CLEAN"
               /\ UNCHANGED <<beside, messages, tools, user_text, intent_count,
                              atomic_parts, local_results, origin, local_time, all_good,
                              part, result>>
  /\ UNCHANGED <<_model, handles>>

\* the cleaned calls in the opposite order
Clean_reversed ==
  /\ pc = "CLEAN"
  /\ all_calls' = [k \in 1..Len(all_calls) |->
                     _clean_calls(all_calls, user_text)[Len(all_calls) + 1 - k]]
  /\ pc' = "DEDUP"
  /\ UNCHANGED <<beside, messages, tools, _model, handles, user_text, total_time,
                 used_cloud, intent_count, atomic_parts, local_results, origin,
                 local_time, all_good, part, cloud_resp, reported, result, log>>
Clean ==
  /\ pc = "CLEAN"
  /\ all_calls' = _clean_calls(all_calls, user_text)
  /\ pc' = "DEDUP"
  /\ UNCHANGED <<beside, messages, tools, _model, handles, user_text, total_time,
                 used_cloud, intent_count, atomic_parts, local_results, origin,
                 local_time, all_good, part, cloud_resp, reported, result, log>>

\* the argument keys in the order sort_keys puts them
SortedKeys == <<"hour", "label", "location", "message", "minute", "minutes",
                "query", "recipient", "song", "time", "title">>
\* json.dumps(arguments, sort_keys=True): the items, in the order of the keys
dumps(arguments) ==
  LET keys == SelectSeq(SortedKeys, LAMBDA k : k \in DOMAIN arguments)
  IN [i \in 1..Len(keys) |-> <<keys[i], arguments[keys[i]]>>]
\* the dedup key of a call
dedup_key(call) == <<call.name, dumps(call.arguments)>>

\* every call is kept
Deduplicate_keep_all(calls, seen) == calls
RECURSIVE Deduplicate(_, _)
\* the first occurrence of every key (name, arguments), in order
Deduplicate(calls, seen) ==
  IF calls = <<>> THEN <<>>
  ELSE IF dedup_key(Head(calls)) \in seen THEN Deduplicate(Tail(calls), seen)
  ELSE <<Head(calls)>>
       \o Deduplicate(Tail(calls), seen \cup {dedup_key(Head(calls))})

\* a result that always claims the device
RouteResult_on_device(deduped, time, cloud) ==
  [function_calls |-> deduped,
   total_time_ms |-> time,
   source |-> "on-device",
   confidence |-> 100]
RouteResult(deduped, time, cloud) ==
  [function_calls |-> deduped,
   total_time_ms |-> time,
   source |-> IF cloud THEN "cloud (fallback)" ELSE "on-device",
   confidence |-> IF ~cloud THEN 100 ELSE 0]

Dedup ==
  /\ pc = "DEDUP"
  /\ result' = RouteResult(Deduplicate(all_calls, {}), total_time, used_cloud)
  /\ pc' = "DONE"
  /\ UNCHANGED <<beside, messages, tools, _model, handles, user_text, total_time,
                 all_calls, used_cloud, intent_count, atomic_parts, local_results, origin,
                 local_time, all_good, part, cloud_resp, reported, log>>

Next ==
  \/ Start
  \/ Count
  \/ Single
  \/ SingleManual
  \/ SingleRetry
  \/ SingleCloud
  \/ MultiSplit
  \/ MultiWhole
  \/ MultiWholeCloud
  \/ MultiPartModel
  \/ MultiPartManual
  \/ MultiJoin
  \/ MultiCloud
  \/ Clean
  \/ Dedup

Spec == Init /\ [][Next]_vars

(***************************************************************************)
(* The pure functions on their own: the validator on calls and tool lists, *)
(* the Intent Counter and the Atomic Decomposer on sentences.              *)
(***************************************************************************)
\* sentences beside those of the requests
Sentences ==
  {<<"Play", "some", "jazz", "music">>,
   <<"Remind", "me", "to", "call", "mom", "at", "3", "PM">>,
   <<"Remind", "me", "about", "the", "call", "at", "7:30", "PM", "and",
     "play", "jazz", ".">>,
   <<"Tell", "Alice", "that", "dinner", "is", "ready">>,
   <<"Tell", "her", "to", "call", "Maria", "and", "play", "some", "jazz",
     "music", ",", "and", "set", "a", "timer", "for", "90", "seconds">>,
   <<"Set", "an", "alarm", "for", "noon", "and", "wake", "me", "at",
     "midnight">>,
   <<"Set", "a", "5", "minute", "timer", ",", "play", "jazz", ",", "and",
     "remind", "me", "to", "call", "at", "5", "PM">>,
   <<"Find", "Maria", "in", "my", "contacts">>,
   <<"Search", "for", "Alice">>,
   <<"Send", "Emma", "a", "message", "saying", "hello", ",", "check", "the",
     "weather", "in", "Paris">>,
   <<"Text", "Alice", "that", "I", "am", "in", "Boston", "!">>,
   <<"What's", "the", "weather", "like", "in", "Boston", "?">>,
   <<"Check", "the", "weather", ".", "Then", "play", "jazz">>,
   <<"Play", "jazz", "and", "also", "set", "a", "timer", "for", "3",
     "hours">>,
   <<"Set", "a", "reminder", "for", "the", "call", "at", "3", "PM">>,
   <<"Wake", "me", "up", "at", "7", "am">>,
   <<"Is", "it", "hot", "in", "Paris">>,
   <<"Play", "jazz", "and", "rock">>,
   <<"Set", "a", "timer", "and", "an", "alarm">>,
   <<"Message", "Alice", "saying", "hello", "and", "find", "Emma">>,
   <<"Set", "a", "timer", "to", "remind", "me", "about", "bread", "and",
     "butter">>,
   <<"Play", "jazz", ",", "and", "rock">>,
   <<"Play", "jazz", ",", "and", "pop", ",", "and", "set", "a", "timer", "for",
     "5", "minutes">>,
   <<"Play", "jazz", ",", "and", "pop">>}
Corpus == Texts \cup Sentences

\* calls with a known or an unknown name, with and without the required
\* arguments, their values numbers, words, empty strings and white space
ArgValues == {IntV(7), StrV(<<"Paris">>), StrV(<<>>), StrV(<<"  ">>)}
ArgInputs == UNION {[K -> ArgValues] : K \in SUBSET {"location", "hour", "minute"}}
CallInputs == {Call(n, a) : n \in {"get_weather", "set_alarm", "open_app"}, a \in ArgInputs}
ToolInputs == {<<>>, <<TOOL_SET_ALARM>>, <<TOOL_GET_WEATHER, TOOL_SET_ALARM>>, ALL_TOOLS}

\* The text of cactus_complete as a sequence of pieces of JSON text:
\*   SUCC    {"success":true,"function_calls":[<one weather call>],"confidence":0.9
\*   OPEN    ,"k":{"a":1
\*   CLOSE   }
\*   QOPEN   ,"s":"{"       a brace inside a string
\*   QCLOSE  ,"s":"}"
\*   JUNK    junk
SUCC == "{\"success\":true,\"function_calls\":[{\"name\":\"get_weather\",\"arguments\":{\"location\":\"Paris\"}}],\"confidence\":0.9"
OPEN == ",\"k\":{\"a\":1"
CLOSE == "}"
QOPEN == ",\"s\":\"{\""
QCLOSE == ",\"s\":\"}\""
JUNK == "junk"
Pieces == {SUCC, OPEN, CLOSE, QOPEN, QCLOSE, JUNK}
MaxRawLen == 5
RawTexts == SeqsUpTo(Pieces, MaxRawLen)
\* the object the text of SUCC ... CLOSE stands for, as _cactus_call reads it
SuccObject == [function_calls |-> <<WrongCall("get_weather")>>, total_time_ms |-> 0,
               confidence |-> 90, cloud_handoff |-> FALSE]

\* what a piece adds to the count of { less the count of } of the text: the
\* call and its arguments inside SUCC are opened and closed within the piece
Braces(t) == IF t \in {SUCC, OPEN, QOPEN} THEN 1
             ELSE IF t \in {CLOSE, QCLOSE} THEN -1 ELSE 0
\* the nesting of objects json.loads sees: braces inside strings do not count
Nesting(t) == IF t \in {SUCC, OPEN} THEN 1 ELSE IF t = CLOSE THEN -1 ELSE 0
RECURSIVE NestingOf(_)
NestingOf(s) == IF s = <<>> THEN 0 ELSE NestingOf(Slice(s, 1, Len(s) - 1)) + Nesting(s[Len(s)])
\* json.loads(s) succeeds: one object, opened by SUCC and closed by its last
\* piece and not before, with members and nested objects inside
loads(s) ==
  /\ Len(s) >= 2
  /\ s[1] = SUCC
  /\ \A i \in 2..Len(s) : s[i] \notin {SUCC, JUNK}
  /\ \A i \in 1..(Len(s) - 1) : NestingOf(Slice(s, 1, i)) >= 1
  /\ NestingOf(s) = 0
\* raw_str.find('{"success"'): the index of the first SUCC, 0 for -1
brace_start(s) == First({i \in 1..Len(s) : s[i] = SUCC})

RECURSIVE Scan_first_only(_, _, _, _)
\* a scan that gives up at the first } at which the depth is 0
Scan_first_only(s, start, i, depth) ==
  IF i > Len(s) THEN 0
  ELSE IF Braces(s[i]) = -1 /\ depth - 1 = 0
       THEN IF s[i] = CLOSE /\ loads(Slice(s, start, i)) THEN i ELSE 0
       ELSE Scan_first_only(s, start, i + 1, depth + Braces(s[i]))
RECURSIVE Scan(_, _, _, _)
\* the loop over the text from brace_start on, at piece i with the depth so
\* far: the index of the } at which the depth is 0 and the text up to it
\* parses, 0 when the loop ends without one.  The } of QCLOSE is followed by
\* the quote that ends the string, so the text up to it does not parse.
Scan(s, start, i, depth) ==
  IF i > Len(s) THEN 0
  ELSE IF Braces(s[i]) = -1 /\ depth - 1 = 0 /\ s[i] = CLOSE /\ loads(Slice(s, start, i))
       THEN i
       ELSE Scan(s, start, i + 1, depth + Braces(s[i]))

\* the text json.loads accepted: all of it, or the text from brace_start to
\* the brace the scan stopped at, or none
Salvaged(s) ==
  LET From(start) ==
        LET To(i) == IF i = 0 THEN NoText ELSE Slice(s, start, i)
        IN IF start = 0 THEN NoText ELSE To(Scan(s, start, start, 0))
  IN IF loads(s) THEN s ELSE From(brace_start(s))
\* how _cactus_call fares with the text
KindOf(s) ==
  IF loads(s) THEN "object"
  ELSE IF brace_start(s) = 0 THEN "garbage"
  ELSE IF Salvaged(s) = NoText THEN "unbalanced" ELSE "salvaged"

\* adapter results: no call, valid and invalid calls, a confidence below, at
\* and above the threshold, with and without the request for the cloud
LocalInputs ==
  [function_calls : SeqsUpTo({WrongCall("get_weather"), PartialCall, UnknownCall}, 2),
   total_time_ms : {1},
   confidence : {0, ConfidenceThreshold - 1, ConfidenceThreshold, 90},
   cloud_handoff : BOOLEAN]

FnInit ==
  /\ pc = "FN"
  /\ \/ /\ \E t \in Corpus : messages = <<Msg("user", t)>>
        /\ tools \in ToolInputs
        /\ all_calls = <<>>
        /\ adapter_result = <<>>
        /\ raw_str = NoText
     \/ /\ messages = <<>>
        /\ \E c \in CallInputs : all_calls = <<c>>
        /\ tools \in ToolInputs
        /\ adapter_result = <<>>
        /\ raw_str = NoText
     \/ /\ messages = <<>>
        /\ all_calls = <<>>
        /\ tools \in ToolInputs
        /\ adapter_result \in LocalInputs
        /\ raw_str = NoText
     \/ /\ messages = <<>>
        /\ all_calls = <<>>
        /\ tools = ALL_TOOLS
        /\ adapter_result = <<>>
        /\ raw_str \in RawTexts
  /\ salvaged = NoText
  /\ _model = 0
  /\ handles = 0
  /\ user_text = <<>>
  /\ total_time = 0
  /\ used_cloud = FALSE
  /\ intent_count = 0
  /\ atomic_parts = <<>>
  /\ local_results = <<>>
  /\ local_time = 0
  /\ all_good = FALSE
  /\ part = 0
  /\ cloud_resp = <<>>
  /\ result = NoResult
  /\ log = <<>>
  /\ reported = <<>>
  /\ origin = <<>>
  /\ threads = <<>>
  /\ destroyed = {}

\* _validate_call(call, tools); the answer is kept in all_good
FnValidate ==
  /\ pc = "FN" /\ all_calls # <<>>
  /\ all_good' = _validate_call(all_calls[1], tools)
  /\ pc' = "FN_VALID"
  /\ UNCHANGED <<beside, messages, tools, _model, handles, user_text, total_time,
                 all_calls, used_cloud, intent_count, atomic_parts, local_results,
                 origin, local_time, part, cloud_resp, reported, result, log>>

\* the acceptance of an adapter result and the calls taken from it
FnAccept ==
  /\ pc = "FN" /\ adapter_result # <<>>
  /\ all_good' = _local_is_good(adapter_result, tools)
  /\ all_calls' = IF _local_is_good(adapter_result, tools)
                  THEN ValidCalls(adapter_result.function_calls, tools)
                  ELSE all_calls
  /\ pc' = "FN_ACCEPT"
  /\ UNCHANGED <<beside, messages, tools, _model, handles, user_text, total_time,
                 used_cloud, intent_count, atomic_parts, local_results, origin,
                 local_time, part, cloud_resp, reported, result, log>>

\* _cactus_call from the text of cactus_complete on, and what the acceptance
\* policy says of the record it returns
FnSalvage ==
  /\ pc = "FN" /\ raw_str # NoText
  /\ LET Read(r) ==
           /\ adapter_result' = r.local
           /\ all_good' = _local_is_good(r.local, tools)
     IN Read(_cactus_call([kind |-> KindOf(raw_str), obj |-> SuccObject],
                          <<>>, tools, 1, 1, <<>>, 0))
  /\ salvaged' = Salvaged(raw_str)
  /\ pc' = "FN_SALVAGE"
  /\ UNCHANGED <<threads, destroyed, raw_str, messages, tools, _model, handles,
                 user_text, total_time, all_calls, used_cloud, intent_count,
                 atomic_parts, local_results, origin, local_time, part, cloud_resp,
                 reported, result, log>>

\* the Tool Pre-filter on the text: filtered_tools is what it returns
FnPick ==
  /\ pc = "FN" /\ messages # <<>>
  /\ user_text' = LastUser(messages)
  /\ pc' = "FN_PICK"
  /\ UNCHANGED <<beside, messages, tools, _model, handles, total_time, all_calls,
                 used_cloud, intent_count, atomic_parts, local_results, origin,
                 local_time, all_good, part, cloud_resp, reported, result, log>>

\* _count_intents(text)
FnCount ==
  /\ pc = "FN" /\ messages # <<>>
  /\ user_text' = LastUser(messages)
  /\ intent_count' = _count_intents(LastUser(messages))
  /\ pc' = "FN_COUNT"
  /\ UNCHANGED <<beside, messages, tools, _model, handles, total_time, all_calls,
                 used_cloud, atomic_parts, local_results, origin, local_time,
                 all_good, part, cloud_resp, reported, result, log>>

\* _split_into_atomic(text)
FnSplit ==
  /\ pc = "FN_COUNT"
  /\ atomic_parts' = _split_into_atomic(user_text)
  /\ pc' = "FN_SPLIT"
  /\ UNCHANGED <<beside, messages, tools, _model, handles, user_text, total_time,
                 all_calls, used_cloud, intent_count, local_results, origin,
                 local_time, all_good, part, cloud_resp, reported, result, log>>

FnNext == FnValidate \/ FnAccept \/ FnSalvage \/ FnPick \/ FnCount \/ FnSplit

FnSpec == FnInit /\ [][FnNext]_vars

(***************************************************************************)
(* Two requests at once.  app.run serves every request on a thread of its  *)
(* own, route_request calls generate_hybrid without a lock, and the        *)
(* threads share the module-level handle _model.  Of generate_hybrid only  *)
(* the handle management is kept: _fresh_model, then _cactus_call          *)
(* (_get_model, cactus_reset, cactus_complete), then either another        *)
(* _fresh_model and _cactus_call (the retry, the next part) or the return. *)
(* A thread may be suspended between any two reads or writes of _model and *)
(* while it is inside a call of the runtime.                               *)
(***************************************************************************)
NumThreads == 2
\* the model calls one invocation makes at most
MaxAttempts == 2
Threads == 1..NumThreads

\* the state the threads leave alone
sequential == <<messages, tools, pc, user_text, total_time, all_calls, used_cloud,
                intent_count, atomic_parts, local_results, local_time, all_good,
                part, cloud_resp, result, log, reported, origin, adapter_result,
                raw_str, salvaged>>

ConcInit ==
  /\ pc = "THREADS"
  /\ messages = <<>>
  /\ tools = ALL_TOOLS
  /\ _model \in {0, 1}
  /\ handles = _model
  /\ threads = [t \in Threads |-> [at |-> "idle", model |-> 0, attempts |-> 0]]
  /\ destroyed = {}
  /\ user_text = <<>>
  /\ total_time = 0
  /\ all_calls = <<>>
  /\ used_cloud = FALSE
  /\ intent_count = 0
  /\ atomic_parts = <<>>
  /\ local_results = <<>>
  /\ local_time = 0
  /\ all_good = FALSE
  /\ part = 0
  /\ cloud_resp = <<>>
  /\ result = NoResult
  /\ log = <<>>
  /\ reported = <<>>
  /\ origin = <<>>
  /\ adapter_result = <<>>
  /\ raw_str = NoText
  /\ salvaged = NoText

\* thread t moves to position at
Goto(t, at) == threads' = [threads EXCEPT ![t].at = at]

\* route_request calls generate_hybrid, which begins with _fresh_model
Enter(t) ==
  /\ threads[t].at = "idle"
  /\ Goto(t, "fresh")
  /\ UNCHANGED <<_model, handles, destroyed, sequential>>

\* _fresh_model: if _model is not None
FreshTest(t) ==
  /\ threads[t].at = "fresh"
  /\ Goto(t, IF _model # 0 THEN "destroy" ELSE "get")
  /\ UNCHANGED <<_model, handles, destroyed, sequential>>

\* _fresh_model: cactus_destroy(_model), of the handle _model holds now
FreshDestroy(t) ==
  /\ threads[t].at = "destroy"
  /\ destroyed' = IF _model # 0 THEN destroyed \cup {_model} ELSE destroyed
  /\ Goto(t, "clear")
  /\ UNCHANGED <<_model, handles, sequential>>

\* _fresh_model: _model = None
FreshClear(t) ==
  /\ threads[t].at = "clear"
  /\ _model' = 0
  /\ Goto(t, "get")
  /\ UNCHANGED <<handles, destroyed, sequential>>

\* _get_model: if _model is None
GetTest(t) ==
  /\ threads[t].at = "get"
  /\ Goto(t, IF _model = 0 THEN "init" ELSE "return")
  /\ UNCHANGED <<_model, handles, destroyed, sequential>>

\* _get_model: cactus_init returns a new handle, or raises
GetInit(t) ==
  /\ threads[t].at = "init"
  /\ \E ok \in BOOLEAN :
       IF ok
       THEN /\ handles' = handles + 1
            /\ threads' = [threads EXCEPT ![t].at = "store", ![t].model = handles + 1]
       ELSE /\ handles' = handles
            /\ threads' = [threads EXCEPT ![t].at = "after", ![t].model = 0,
                                          ![t].attempts = @ + 1]
  /\ UNCHANGED <<_model, destroyed, sequential>>

\* _get_model: _model = (the handle cactus_init returned)
GetStore(t) ==
  /\ threads[t].at = "store"
  /\ _model' = threads[t].model
  /\ Goto(t, "return")
  /\ UNCHANGED <<handles, destroyed, sequential>>

\* _get_model: return _model; _cactus_call: if model is None, return
GetReturn(t) ==
  /\ threads[t].at = "return"
  /\ threads' = [threads EXCEPT ![t].model = _model,
                                ![t].at = IF _model = 0 THEN "after" ELSE "reset",
                                ![t].attempts = IF _model = 0 THEN @ + 1 ELSE @]
  /\ UNCHANGED <<_model, handles, destroyed, sequential>>

\* _cactus_call: cactus_reset(model); cactus_complete is entered
CompleteBegin(t) ==
  /\ threads[t].at = "reset"
  /\ Goto(t, "completing")
  /\ UNCHANGED <<_model, handles, destroyed, sequential>>

\* cactus_complete returns
CompleteEnd(t) ==
  /\ threads[t].at = "completing"
  /\ threads' = [threads EXCEPT ![t].at = "after", ![t].attempts = @ + 1]
  /\ UNCHANGED <<_model, handles, destroyed, sequential>>

\* the retry of the SINGLE path, the next part of the MULTI path
Again(t) ==
  /\ threads[t].at = "after"
  /\ threads[t].attempts < MaxAttempts
  /\ Goto(t, "fresh")
  /\ UNCHANGED <<_model, handles, destroyed, sequential>>

\* generate_hybrid returns
Exit(t) ==
  /\ threads[t].at = "after"
  /\ Goto(t, "done")
  /\ UNCHANGED <<_model, handles, destroyed, sequential>>

ConcNext ==
  \E t \in Threads :
    \/ Enter(t)
    \/ FreshTest(t)
    \/ FreshDestroy(t)
    \/ FreshClear(t)
    \/ GetTest(t)
    \/ GetInit(t)
    \/ GetStore(t)
    \/ GetReturn(t)
    \/ CompleteBegin(t)
    \/ CompleteEnd(t)
    \/ Again(t)
    \/ Exit(t)

ConcSpec == ConcInit /\ [][ConcNext]_vars

(***************************************************************************)
(* Properties of the router.                                               *)
(***************************************************************************)
\* the entries of the log whose kind is in kinds, in order
Events(kinds) == SelectSeq(log, LAMBDA e : e.ev \in kinds)
\* the stages a path went through: the kinds of the entries that tell of a
\* model call, its acceptance, a manual extraction, its outcome, a cloud call
Stages ==
  LET E == Events({"model", "accepted", "rejected", "manual", "extracted",
                   "nothing", "cloud"})
  IN [i \in 1..Len(E) |-> E[i].ev]
NameSeq(tls) == [i \in 1..Len(tls) |-> tls[i].name]
IsPrefix(a, b) == Len(a) <= Len(b) /\ a = Slice(b, 1, Len(a))
ModelCalls == Len(Events({"model"}))
CloudCalls == Len(Events({"cloud"}))
Finished == pc \in {"CLEAN", "DEDUP", "DONE"}
SinglePath == intent_count < 2 /\ pc \notin {"START", "COUNT"}
SplitFailed ==
  intent_count >= 2 /\ pc \notin {"START", "COUNT", "MULTI"} /\ Len(atomic_parts) < 2
MultiParts == Len(atomic_parts) >= 2
\* the ways through the stages of the SINGLE logic, with and without a tool
\* for the manual extractor
SingleStages ==
  IF best_tool_name # ""
  THEN {<<"model", "accepted">>,
        <<"model", "rejected", "manual", "extracted">>,
        <<"model", "rejected", "manual", "nothing", "model", "accepted">>,
        <<"model", "rejected", "manual", "nothing", "model", "rejected", "cloud">>}
  ELSE {<<"model", "accepted">>,
        <<"model", "rejected", "model", "accepted">>,
        <<"model", "rejected", "model", "rejected", "cloud">>}
\* the ways through the stages when splitting failed
WholeStages == {<<"model", "accepted">>, <<"model", "rejected", "cloud">>}
FollowsStages(ways) ==
  /\ \E w \in ways : IsPrefix(Stages, w)
  /\ Finished => Stages \in ways

\* C1: in one invocation the cloud is called at most once, and every cloud
\* call is handed the caller's complete message list, never the messages of
\* one atomic part.
C1_CloudOnceWithAllMessages ==
  /\ CloudCalls <= 1
  /\ \A i \in 1..CloudCalls : Events({"cloud"})[i].msgs = messages
\* a part of a MULTI request failed and the cloud was called for the request
C1_Witness ==
  /\ pc = "DONE" /\ MultiParts /\ ~all_good /\ part > 0
  /\ CloudCalls = 1
  /\ messages # <<Msg("user", atomic_parts[part])>>

\* C2: the result has confidence 1.0 and source "on-device" exactly when the
\* cloud was not called in the invocation; otherwise it has confidence 0.0
\* and source "cloud (fallback)".
C2_SourceTellsCloud ==
  pc = "DONE" =>
    IF CloudCalls = 0
    THEN result.confidence = 100 /\ result.source = "on-device"
    ELSE result.confidence = 0 /\ result.source = "cloud (fallback)"
C2_Witness ==
  pc = "DONE" /\ CloudCalls = 1 /\ result.source = "cloud (fallback)"
     /\ result.confidence = 0

\* C3: in the SINGLE path the stages come in the order model, manual
\* extractor, one retry of the model on a fresh handle, cloud; each stage runs
\* only when the one before gave nothing acceptable, the model is called at
\* most twice and the cloud only after the retry was rejected.
C3_SingleStageOrder ==
  SinglePath =>
    /\ FollowsStages(SingleStages)
    /\ ModelCalls <= 2
    /\ \A i, j \in 1..Len(Events({"complete"})) :
         i # j => Events({"complete"})[i].h # Events({"complete"})[j].h
\* all four stages ran: the model was rejected, the manual extractor of the
\* one matching tool found nothing, the retry was rejected, the cloud answered
C3_Witness ==
  /\ pc = "DONE" /\ SinglePath /\ best_tool_name # ""
  /\ Stages = <<"model", "rejected", "manual", "nothing", "model", "rejected",
                "cloud">>
  /\ Len(Events({"complete"})) = 2

\* C4, as stated: when the intent count is at least 2 and the decomposer gives
\* fewer than 2 parts, the whole text goes through the SINGLE logic: narrowed
\* tools, model, manual extractor, retry, and the cloud last.
C4_SplitFailureIsSingleLogic ==
  SplitFailed =>
    /\ FollowsStages(SingleStages)
    /\ \A i \in 1..ModelCalls :
         Events({"model"})[i].tools = NameSeq(filtered_tools)
\* C4, amended: when the intent count is at least 2 and the decomposer gives
\* fewer than 2 parts, the model is called once on the whole text with the
\* complete tool list, and when its result is rejected the cloud is called
\* at once; neither the manual extractor nor a retry runs.
C4_SplitFailureModelThenCloud ==
  SplitFailed =>
    /\ FollowsStages(WholeStages)
    /\ \A i \in 1..ModelCalls :
         /\ Events({"model"})[i].tools = NameSeq(tools)
         /\ Events({"model"})[i].msgs = messages
\* a text of two intents and one part that names one tool: the model was
\* rejected and the cloud answered
C4_Witness ==
  /\ pc = "DONE" /\ SplitFailed /\ best_tool_name # ""
  /\ NameSeq(filtered_tools) # NameSeq(tools)
  /\ Stages = <<"model", "rejected", "cloud">>

\* what the manual extractor can give for the parts: the calls a backfill
\* may append to the cloud's calls
ManualOfParts ==
  {ResolvePronoun(_manual_extract(atomic_parts[k], n)) :
     k \in 1..Len(atomic_parts), n \in ToolNames(tools)}
\* the entries of the log made before the cloud was called
LocalLog ==
  LET C == {i \in 1..Len(log) : log[i].ev = "cloud"}
  IN IF C = {} THEN log ELSE Slice(log, 1, Min(C) - 1)

\* C5: in the MULTI path with two or more parts, when the model and the
\* manual extractor both fail for a part the local attempt ends there: no
\* later part is attempted, the calls of the earlier parts are not
\* committed, the cloud is called and the result is made of the cloud's
\* calls and the manual backfill only.  When no part fails, the accumulated
\* local calls are the result and the cloud is not called.
C5_MultiAbandonsOnFailure ==
  MultiParts =>
    /\ \A i \in 1..Len(LocalLog) : LocalLog[i].part <= part
    /\ ~all_good =>
         /\ LocalLog[Len(LocalLog)].ev \in {"rejected", "nothing"}
         /\ LocalLog[Len(LocalLog)].part = part
    /\ (Finished /\ ~all_good) =>
         /\ CloudCalls = 1
         /\ used_cloud
         /\ pc = "CLEAN" =>
              /\ Len(all_calls) >= Len(cloud_resp)
              /\ Slice(all_calls, 1, Len(cloud_resp)) = cloud_resp
              /\ \A i \in (Len(cloud_resp) + 1)..Len(all_calls) :
                   all_calls[i] \in ManualOfParts \ {None}
    /\ (Finished /\ all_good) =>
         /\ CloudCalls = 0
         /\ ~used_cloud
         /\ part = Len(atomic_parts)
         /\ pc = "CLEAN" => all_calls = local_results
\* the first part gave calls, a later part failed, and the calls handed to
\* the cleaner are the cloud's alone
C5_Witness ==
  /\ pc = "CLEAN" /\ MultiParts /\ ~all_good /\ part > 1
  /\ local_results # <<>>
  /\ cloud_resp # <<>>
  /\ all_calls = cloud_resp

\* C6: after a cloud call of the MULTI path that gave fewer calls than there
\* are parts, every part whose pre-filter names one tool T that the cloud's
\* calls do not name, and from which the manual extractor gives a valid call,
\* has a call named T in the result; no backfilled call bears a name that the
\* cloud's calls contain.
C6_BackfillsMissingTools ==
  (MultiParts /\ Finished /\ CloudCalls = 1) =>
    /\ (pc = "DONE" /\ Len(cloud_resp) < Len(atomic_parts)) =>
         \A k \in 1..Len(atomic_parts) :
           LET best == _pick_best_tool(atomic_parts[k], tools)
               manual == _manual_extract(atomic_parts[k], best[1].name)
           IN (/\ Len(best) = 1
               /\ best[1].name \notin Names(cloud_resp)
               /\ manual # None
               /\ _validate_call(manual, tools))
              => best[1].name \in Names(result.function_calls)
    /\ pc = "CLEAN" =>
         \A i \in (Len(cloud_resp) + 1)..Len(all_calls) :
           all_calls[i].name \notin Names(cloud_resp)
\* the cloud named the weather alone and the timer of the first part was
\* backfilled
C6_Witness ==
  /\ pc = "DONE" /\ MultiParts /\ CloudCalls = 1
  /\ Names(cloud_resp) = {"get_weather"}
  /\ Len(cloud_resp) < Len(atomic_parts)
  /\ "set_timer" \in Names(result.function_calls)

\* C7, as stated: every call of the result names a tool of the tool list and
\* has a non-blank value for every required parameter of that tool.
C7_ResultCallsAreValid ==
  pc = "DONE" =>
    \A i \in 1..Len(result.function_calls) :
      _validate_call(result.function_calls[i], tools)

\* C8, as stated: generate_hybrid never raises, whatever the adapters do.
C8_NeverRaises == pc # "RAISED"

\* generate_hybrid has returned or raised: no step is left to take
Stopped == pc \in {"DONE", "RAISED"}
\* C9, as stated: every invocation goes through START, COUNT, SINGLE or
\* MULTI, CLEAN and DEDUP to DONE, with at most max(2, number of parts) model
\* calls and at most one cloud call; on a run that has stopped: it stopped in
\* DONE, within these numbers of calls.
C9_StopsInDone ==
  Stopped =>
    /\ pc = "DONE"
    /\ ModelCalls <= Max2(2, Len(atomic_parts))
    /\ CloudCalls <= 1

PerPart ==
  [k \in 1..Len(origin) |->
     _clean_calls(<<origin[k].call>>, atomic_parts[origin[k].part])[1]]
\* the local attempt of the MULTI path gave the calls that were returned
LocalMulti == MultiParts /\ pc \in {"DEDUP", "DONE"} /\ ~used_cloud

\* C11: in the multi-intent path the final arguments of a call produced for
\* part i are those extracted from the text of part i: they are never taken
\* from, or overridden by, another part or the full request text.
C11_RepairedAgainstOwnPart == LocalMulti => all_calls = PerPart

\* the request "Set an alarm for 7:30 AM" with the alarm tool alone
AlarmRequest == LastUser(messages) = T_alarm730 /\ tools = <<TOOL_SET_ALARM>>

\* C12: for "Set an alarm for 7:30 AM" with only the alarm tool, the calls of
\* the RouteResult are exactly [set_alarm {hour: 7, minute: 30}] whatever the
\* on-device adapter returned.
C12_AlarmWhateverModel ==
  AlarmRequest /\ pc = "DONE" =>
    result.function_calls =
      <<Call("set_alarm", [hour |-> IntV(7), minute |-> IntV(30)])>>

RECURSIVE Sum(_)
Sum(ts) == IF ts = <<>> THEN 0 ELSE Head(ts) + Sum(Tail(ts))

\* C13: the total_time_ms of the RouteResult is the sum of the total_time_ms
\* every on-device model call and every cloud call of the invocation reported,
\* rejected results and the parts of an abandoned local attempt included, and
\* nothing else.
C13_TotalTimeIsSum ==
  /\ pc \in {"CLEAN", "DEDUP", "DONE"} =>
       /\ total_time = Sum(reported)
       /\ Len(reported) = ModelCalls + CloudCalls
  /\ pc = "DONE" => result.total_time_ms = Sum(reported)
\* a finished request whose local attempt was abandoned after one part had
\* been answered and the answer to the next had been rejected, both timed, as
\* was the cloud call
C13_Witness ==
  /\ pc = "DONE"
  /\ used_cloud
  /\ MultiParts /\ ~all_good /\ part > 1
  /\ local_time = 2
  /\ result.total_time_ms = 3

\* the positions in the log of the entries of one kind
LogAt(kind) == {i \in 1..Len(log) : log[i].ev = kind}

\* C14: the handle is destroyed at the start of every invocation and before
\* the retry of the SINGLE path: every completion runs on a handle that was
\* initialised in this invocation and not destroyed since, the retry does not
\* run on the handle of the first attempt, and the handle is reset right
\* before every completion.
C14_HandleLifecycle ==
  /\ pc = "COUNT" => _model = 0
  /\ \A i \in LogAt("complete") :
        /\ i > 1 /\ log[i - 1].ev = "reset" /\ log[i - 1].h = log[i].h
        /\ \E j \in LogAt("init") :
              /\ j < i /\ log[j].h = log[i].h
              /\ \A k \in j..i : ~(log[k].ev = "destroy" /\ log[k].h = log[i].h)
  /\ SinglePath =>
        \A i, j \in LogAt("complete") : i # j => log[i].h # log[j].h
\* an earlier invocation left a handle, which was destroyed first; the first
\* attempt and the retry of the SINGLE path both ran a completion
C14_Witness ==
  /\ SinglePath
  /\ log # <<>> /\ log[1].ev = "destroy"
  /\ Cardinality(LogAt("complete")) = 2

\* the part that produced the call at position i of the RouteResult: the
\* part of the first of the cleaned calls that is equal to it
ProducedFor(i) ==
  origin[Min({k \in 1..Len(all_calls) : all_calls[k] = result.function_calls[i]})].part

\* C15: when every part of a multi-intent request succeeded locally, the calls
\* of the RouteResult are in the order of the parts that produced them, e.g.
\* set_timer then get_weather for "Set a timer for 10 minutes and check the
\* weather in Boston".
C15_CallsInPartOrder ==
  LocalMulti /\ pc = "DONE" =>
    /\ Len(all_calls) = Len(origin)
    /\ \A k \in 1..Len(origin) :
          /\ all_calls[k].name = origin[k].call.name
          /\ k > 1 => origin[k - 1].part <= origin[k].part
    /\ \A i \in 1..Len(result.function_calls) :
          /\ \E k \in 1..Len(all_calls) : all_calls[k] = result.function_calls[i]
          /\ i > 1 => ProducedFor(i - 1) <= ProducedFor(i)
    /\ LastUser(messages) = T_timer_weather =>
          result.function_calls =
            <<Call("set_timer", [minutes |-> IntV(10)]),
              Call("get_weather", [location |-> StrV(<<"Boston">>)])>>
\* the timer and weather request was answered on the device part by part
C15_Witness ==
  /\ LocalMulti /\ pc = "DONE"
  /\ LastUser(messages) = T_timer_weather
  /\ Len(result.function_calls) = 2
  /\ ProducedFor(1) = 1 /\ ProducedFor(2) = 2

\* the positions of all_calls whose dedup key no earlier position has
FirstOccurrences ==
  {k \in 1..Len(all_calls) :
     \A j \in 1..(k - 1) : dedup_key(all_calls[j]) # dedup_key(all_calls[k])}
RECURSIVE Ascending(_)
\* the elements of a set of numbers, in ascending order
Ascending(S) == IF S = {} THEN <<>> ELSE <<Min(S)>> \o Ascending(S \ {Min(S)})

\* C16: the calls of the RouteResult are exactly the first occurrences of the
\* distinct dedup keys (name, arguments with sorted keys), in the order of
\* first appearance; no two of them have equal dedup keys, and deduplicating
\* them again returns them unchanged.
C16_DedupFirstOccurrences ==
  pc = "DONE" =>
    /\ result.function_calls =
         [i \in 1..Cardinality(FirstOccurrences) |->
            all_calls[Ascending(FirstOccurrences)[i]]]
    /\ \A i, j \in 1..Len(result.function_calls) :
          i # j => dedup_key(result.function_calls[i]) # dedup_key(result.function_calls[j])
    /\ Deduplicate(result.function_calls, {}) = result.function_calls
\* a call was dropped as the repetition of an earlier one, which was kept
C16_Witness ==
  /\ pc = "DONE"
  /\ Len(result.function_calls) >= 1
  /\ Len(all_calls) > Len(result.function_calls)

\* the parameters the schema of the tool named name requires
RequiredOf(name, tls) ==
  LET tool == CHOOSE t \in {tls[i] : i \in 1..Len(tls)} : t.name = name
  IN {tool.required[i] : i \in 1..Len(tool.required)}
\* the call handed to the validator
Validated == all_calls[1]

\* C17: _validate_call(call, tools) is true if and only if the name of the
\* call is a known tool and every required parameter of that tool is a key of
\* the arguments whose value is not a string, or is a string that is not
\* empty once trimmed; for an unknown tool, a missing key and a blank string
\* it answers false.
C17_ValidatorIff ==
  pc = "FN_VALID" =>
    (all_good <=>
       /\ Validated.name \in ToolNames(tools)
       /\ \A r \in RequiredOf(Validated.name, tools) :
             /\ r \in DOMAIN Validated.arguments
             /\ \/ ~IsStr(Validated.arguments[r])
                \/ Strip(Validated.arguments[r].s, Spaces) # <<>>)
\* a call to a known tool with all its required arguments, one of them white
\* space, was refused
C17_Witness ==
  /\ pc = "FN_VALID" /\ ~all_good
  /\ Validated.name = "set_alarm" /\ tools = ALL_TOOLS
  /\ DOMAIN Validated.arguments = {"hour", "minute"}
  /\ Validated.arguments.hour = IntV(7)
  /\ Validated.arguments.minute = StrV(<<"  ">>)

\* the action patterns of each category: alarm, timer, messaging (send or
\* text, and tell), weather, music, reminder, contact search
Categories == <<{1}, {2}, {3, 8}, {4}, {5}, {6}, {7}>>
\* the categories with a pattern that matches the text
Matched(text) ==
  {c \in 1..Len(Categories) : \E k \in Categories[c] : ActionPattern(k, text)}

\* C18: the Intent Counter returns max(1, number of categories among alarm,
\* timer, messaging, weather, music, reminder and contact search with a
\* matching pattern): a category counts once however many of its patterns
\* match, and the result is between 1 and 7.
C18_CountsCategories ==
  pc = "FN_COUNT" =>
    /\ intent_count = Max2(1, Cardinality(Matched(user_text)))
    /\ intent_count \in 1..7

\* C19: for every text for which the Intent Counter reports exactly one
\* intent, the Atomic Decomposer returns the list of the unmodified text alone.
C19_SingleIntentIsNotSplit ==
  pc = "FN_SPLIT" /\ intent_count = 1 => atomic_parts = <<user_text>>

\* C20: the Atomic Decomposer cuts only where a recognized action verb
\* follows: every part after the first begins with an action verb, and "Send
\* a message to Alice saying hello and goodbye." stays one part.
C20_CutsBeforeActionVerbs ==
  pc = "FN_SPLIT" =>
    /\ \A i \in 2..Len(atomic_parts) : LTok(atomic_parts[i], 1) \in action_start
    /\ user_text = T_msg_and => atomic_parts = <<T_msg_and>>

(***************************************************************************)
(* Cleaned string arguments.                                               *)
(***************************************************************************)
\* a string that has no enclosing quote, no trailing . ! , ; : and no white
\* space at its ends or in a run
Tidy(s) ==
  \/ s = <<>>
  \/ /\ ~IsQuote(s[1]) /\ ~IsQuote(s[Len(s)])
     /\ s[Len(s)] \notin {".", "!", ",", ";", ":"}
     /\ \A i \in 1..Len(s) : ~IsSpace(s[i])
TidyCalls(calls) ==
  \A i \in 1..Len(calls) : \A k \in DOMAIN calls[i].arguments :
     IsStr(calls[i].arguments[k]) => Tidy(calls[i].arguments[k].s)

\* C21: after the CLEAN step every string argument of every call, of a known
\* tool or not, has no enclosing quote, no trailing punctuation, no white
\* space at its ends and no run of white space
C21_StringArgumentsAreTidy ==
  /\ pc = "DEDUP" => TidyCalls(all_calls)
  /\ pc = "DONE" => TidyCalls(result.function_calls)

(***************************************************************************)
(* The acceptance policy.                                                  *)
(***************************************************************************)
\* C22: an adapter result is accepted exactly when it does not ask for the
\* cloud, has calls, has a call that is valid against the tool list, and its
\* confidence is not below the threshold; of an accepted result the valid
\* calls, at least one, are used and no other
C22_AcceptanceIff ==
  pc = "FN_ACCEPT" =>
    LET calls == adapter_result.function_calls
        ok == {i \in 1..Len(calls) : _validate_call(calls[i], tools)}
    IN /\ all_good <=> /\ ~adapter_result.cloud_handoff
                       /\ Len(calls) > 0
                       /\ ok # {}
                       /\ adapter_result.confidence >= ConfidenceThreshold
       /\ all_good => /\ Len(all_calls) = Cardinality(ok)
                      /\ Len(all_calls) >= 1
                      /\ \A k \in 1..Len(all_calls) :
                           /\ _validate_call(all_calls[k], tools)
                           /\ \E i \in ok : all_calls[k] = calls[i]
       /\ ~all_good => all_calls = <<>>
\* a result with a valid call beside invalid ones, at the threshold, accepted
C22_Witness ==
  /\ pc = "FN_ACCEPT" /\ all_good
  /\ adapter_result.confidence = ConfidenceThreshold
  /\ Len(adapter_result.function_calls) = 2
  /\ Len(all_calls) = 1

(***************************************************************************)
(* Empty results.                                                          *)
(***************************************************************************)
\* C23: a result of source "on-device" holds at least one call; a result
\* without calls was given after the cloud was called
C23_OnDeviceIsNotEmpty ==
  pc = "DONE" =>
    /\ result.source = "on-device" => result.function_calls # <<>>
    /\ result.function_calls = <<>> =>
         /\ result.source = "cloud (fallback)"
         /\ CloudCalls = 1
\* the cloud was called and returned nothing, and the result is empty
C23_Witness ==
  /\ pc = "DONE"
  /\ result.function_calls = <<>>
  /\ result.source = "cloud (fallback)"
  /\ cloud_resp = <<>> /\ CloudCalls = 1

(***************************************************************************)
(* The model is tried first.                                               *)
(***************************************************************************)
\* the model was called before entry i of the log
ModelBefore(i) == \E j \in 1..(i - 1) : log[j].ev = "model"
\* the model was called for the part of entry i and its result rejected,
\* before entry i
RejectedBefore(i) ==
  \E j, k \in 1..(i - 1) :
    /\ j < k
    /\ log[j].ev = "model" /\ log[j].part = log[i].part
    /\ log[k].ev = "rejected" /\ log[k].part = log[i].part
\* entry i was made after the cloud was called
AfterCloud(i) == \E j \in 1..(i - 1) : log[j].ev = "cloud"

\* C24, as stated: no manual extraction and no cloud call comes before the
\* first model call, and in the MULTI path every manual extraction of a part
\* comes after a model call for that part that was rejected.
C24_ManualOnlyAfterRejection ==
  \A i \in 1..Len(log) :
    /\ log[i].ev \in {"manual", "cloud"} => ModelBefore(i)
    /\ (MultiParts /\ log[i].ev = "manual") => RejectedBefore(i)

\* C24, amended: no manual extraction and no cloud call comes before the
\* first model call; in the loop over the parts of the MULTI path every
\* manual extraction of a part comes after a model call for that part that
\* was rejected; the manual extractions made after the cloud call are those
\* of the backfill, for the parts whose one pre-filtered tool the cloud did
\* not name, whatever the model did for the part.
C24_ModelFirstBackfillApart ==
  \A i \in 1..Len(log) :
    /\ log[i].ev \in {"manual", "cloud"} => ModelBefore(i)
    /\ (MultiParts /\ log[i].ev = "manual" /\ ~AfterCloud(i)) => RejectedBefore(i)
    /\ (log[i].ev = "manual" /\ AfterCloud(i)) =>
         /\ MultiParts
         /\ Len(cloud_resp) < Len(atomic_parts)
         /\ BestName(_pick_best_tool(atomic_parts[log[i].part], tools))
              \notin Names(cloud_resp) \cup {""}
\* the extractor ran in the loop on a part whose model call was rejected, and
\* the backfill ran it on a part whose model call was accepted
C24_Witness ==
  /\ pc = "CLEAN" /\ MultiParts
  /\ \E i \in 1..Len(log) :
       log[i].ev = "manual" /\ ~AfterCloud(i) /\ RejectedBefore(i)
  /\ \E i \in 1..Len(log) :
       /\ log[i].ev = "manual" /\ AfterCloud(i)
       /\ \E j \in 1..(i - 1) : log[j].ev = "accepted" /\ log[j].part = log[i].part

(***************************************************************************)
(* The shared handle.                                                      *)
(***************************************************************************)
\* C25, as stated: when two invocations interleave on the shared handle, no
\* completion runs on a handle that was destroyed, and no handle is destroyed
\* while a completion runs on it.
C25_NoCompletionOnDestroyedHandle ==
  \A t \in DOMAIN threads :
    threads[t].at = "completing" => threads[t].model \notin destroyed

(***************************************************************************)
(* The shape of the Decomposer's result.                                   *)
(***************************************************************************)
\* C26: the Decomposer returns either the text alone, unchanged, or two or
\* more parts, each stripped and more than MinPartLen characters long; it
\* returns neither an empty list nor a shorter fragment
C26_PartsOrWholeText ==
  pc = "FN_SPLIT" =>
    \/ atomic_parts = <<user_text>>
    \/ /\ Len(atomic_parts) >= 2
       /\ \A i \in 1..Len(atomic_parts) :
            /\ CharLen(atomic_parts[i]) >= MinPartLen + 1
            /\ atomic_parts[i][Len(atomic_parts[i])] # "."
\* the first rule cut the text in three and the fragment "pop" was dropped
C26_Witness ==
  /\ pc = "FN_SPLIT"
  /\ Len(ReSplit(1, user_text)) = 3
  /\ Len(atomic_parts) = 2
  /\ \E i \in 1..3 : CharLen(ReSplit(1, user_text)[i]) <= MinPartLen

(***************************************************************************)
(* The Tool Pre-filter.                                                    *)
(***************************************************************************)
\* the known tools, those with keyword patterns, that match the text
KnownMatches ==
  {n \in {KeywordOrder[i] : i \in 1..Len(KeywordOrder)} : _TOOL_KEYWORDS(n, user_text)}
\* the pre-filter returns only supplied tools, and some tool when any is supplied
ReturnsSupplied ==
  /\ \A i \in 1..Len(filtered_tools) : \E j \in 1..Len(tools) : filtered_tools[i] = tools[j]
  /\ tools # <<>> => filtered_tools # <<>>

\* C27, as stated: the pre-filter returns one supplied tool when exactly one
\* known tool matches the text and the supplied list otherwise, never an
\* empty list for a non-empty one and never a tool that was not supplied.
C27_NarrowsOnOneKnownMatch ==
  pc = "FN_PICK" =>
    /\ IF Cardinality(KnownMatches) = 1
       THEN Len(filtered_tools) = 1 /\ filtered_tools[1].name \in KnownMatches
       ELSE filtered_tools = tools
    /\ ReturnsSupplied

\* C27, amended: only the supplied tools count.  The pre-filter returns the
\* one supplied tool that matches the text when exactly one supplied tool
\* matches, whatever known tools beside the supplied ones match, and the
\* supplied list otherwise; never an empty list for a non-empty one and
\* never a tool that was not supplied.
C27_NarrowsOnOneSuppliedMatch ==
  pc = "FN_PICK" =>
    /\ IF Cardinality(KnownMatches \cap ToolNames(tools)) = 1
       THEN /\ Len(filtered_tools) = 1
            /\ filtered_tools[1].name \in KnownMatches \cap ToolNames(tools)
       ELSE filtered_tools = tools
    /\ ReturnsSupplied
\* two known tools match, one of them is supplied beside another tool, and
\* the list is narrowed to it
C27_Witness ==
  /\ pc = "FN_PICK"
  /\ Len(tools) = 2
  /\ Cardinality(KnownMatches) = 2
  /\ Len(filtered_tools) = 1

(***************************************************************************)
(* The transport of the cloud adapter.                                     *)
(***************************************************************************)
\* C28: a call of generate_cloud makes at most two transport attempts, the
\* second only after the first failed; when both fail it returns no calls
\* and raises nothing, and the router gives its result as a cloud fallback
C28_CloudRetriesOnce ==
  \A i \in 1..Len(log) :
    log[i].ev = "cloud" =>
      /\ Len(log[i].tries) <= 2
      /\ Len(log[i].tries) = 2 => log[i].tries[1] = "raises"
      /\ (Len(log[i].tries) >= 1 /\ log[i].tries[1] = "raises") => Len(log[i].tries) = 2
      /\ log[i].tries = <<"raises", "raises">> =>
           /\ pc \in {"CLEAN", "DEDUP", "DONE"}
           /\ cloud_resp = <<>>
           /\ used_cloud
           /\ pc = "DONE" => result.source = "cloud (fallback)"
\* both attempts failed and the empty result is given as a cloud fallback
C28_Witness ==
  /\ pc = "DONE"
  /\ \E i \in 1..Len(log) : log[i].ev = "cloud" /\ log[i].tries = <<"raises", "raises">>
  /\ result.function_calls = <<>>
  /\ result.source = "cloud (fallback)"

(***************************************************************************)
(* The reading of the text of the on-device model.                         *)
(***************************************************************************)
RECURSIVE BraceDepth(_, _, _)
\* the count of { less the count of } in pieces a..b of the text s
BraceDepth(s, a, b) == IF a > b THEN 0 ELSE BraceDepth(s, a, b - 1) + Braces(s[b])
\* the pieces of raw_str at which a substring from the first {"success" on
\* ends balanced and parses
BalancedEnds ==
  LET start == First({i \in 1..Len(raw_str) : raw_str[i] = SUCC})
  IN IF start = 0 THEN {}
     ELSE {b \in start..Len(raw_str) :
             /\ raw_str[b] \in {CLOSE, QCLOSE}
             /\ BraceDepth(raw_str, start, b) = 0
             /\ loads(Slice(raw_str, start, b))}
\* C29: when the text is not valid JSON, _cactus_call uses the first balanced
\* substring from the first {"success" on that parses; when there is no
\* {"success" or no balanced substring parses, it returns the hard local
\* failure record (no calls, confidence 0, cloud_handoff true), and the
\* acceptance policy rejects that record whatever the tools
C29_SalvageOrHardFailure ==
  (pc = "FN_SALVAGE" /\ ~loads(raw_str)) =>
    LET start == First({i \in 1..Len(raw_str) : raw_str[i] = SUCC})
    IN /\ BalancedEnds = {} =>
            /\ salvaged = NoText
            /\ adapter_result.function_calls = <<>>
            /\ adapter_result.confidence = 0
            /\ adapter_result.cloud_handoff
            /\ ~all_good
            /\ \A tls \in ToolInputs : ~_local_is_good(adapter_result, tls)
       /\ BalancedEnds # {} =>
            /\ salvaged = Slice(raw_str, start, Min(BalancedEnds))
            /\ adapter_result = SuccObject
\* a text whose first balanced substring does not parse and whose second
\* does: the record of the second is returned and accepted
C29_Witness ==
  /\ pc = "FN_SALVAGE"
  /\ ~loads(raw_str)
  /\ BalancedEnds # {}
  /\ LET start == First({i \in 1..Len(raw_str) : raw_str[i] = SUCC})
     IN \E b \in start..(Min(BalancedEnds) - 1) :
          /\ raw_str[b] \in {CLOSE, QCLOSE}
          /\ BraceDepth(raw_str, start, b) = 0
  /\ adapter_result = SuccObject
  /\ all_good

(***************************************************************************)
(* Pronoun resolution.                                                     *)
(***************************************************************************)
\* the capitalised words of the full text that are not action verbs
NounsOfText ==
  SelectSeq(user_text, LAMBDA w : IsCapWord(w) /\ Lower(w) \notin action_start)
\* the call at position k of local_results is a send_message call whose
\* recipient, as extracted for its part, is a pronoun
PronounCall(k) ==
  /\ origin[k].call.name = "send_message"
  /\ "recipient" \in DOMAIN origin[k].call.arguments
  /\ IsStr(origin[k].call.arguments.recipient)
  /\ Len(origin[k].call.arguments.recipient.s) = 1
  /\ Lower(origin[k].call.arguments.recipient.s[1]) \in Pronouns
\* C30: when the recipient extracted for a send_message call is one of
\* him/her/them/he/she/they and the full text has a capitalised word that is
\* not an action verb, the recipient in the RouteResult is the first such
\* word; it is never an action verb, and the final cleaning leaves the
\* recipient that was resolved for the part as it was
C30_PronounIsFirstNoun ==
  (LocalMulti /\ pc = "DONE") =>
    \A k \in 1..Len(origin) :
      (PronounCall(k) /\ NounsOfText # <<>>) =>
        /\ \E i \in 1..Len(result.function_calls) : result.function_calls[i] = all_calls[k]
        /\ all_calls[k].arguments.recipient = StrV(<<NounsOfText[1]>>)
        /\ Lower(all_calls[k].arguments.recipient.s[1]) \notin action_start
        /\ all_calls[k].arguments.recipient = local_results[k].arguments.recipient

====
